---------------------------- MODULE Spec2Model ----------------------------
(***************************************************************************)
(* A model of the BingeHouse movie-query pipeline (MovieButlerChain in     *)
(* supabase/functions/process-movie-query/movie-butler-chain.ts).          *)
(*                                                                         *)
(* Text is modelled at character level: a string is a sequence of          *)
(* one-character strings, and every regular expression of the source is    *)
(* written as a syntax tree that a small matcher evaluates, so that the    *)
(* order and the overlap of the pattern tables are those of the code.      *)
(***************************************************************************)
EXTENDS Integers, Sequences, FiniteSets, TLC

(***************************************************************************)
(* Characters and strings                                                  *)
(***************************************************************************)
LowerSeq == <<"a","b","c","d","e","f","g","h","i","j","k","l","m",
              "n","o","p","q","r","s","t","u","v","w","x","y","z">>
UpperSeq == <<"A","B","C","D","E","F","G","H","I","J","K","L","M",
              "N","O","P","Q","R","S","T","U","V","W","X","Y","Z">>
RangeOf(s) == {s[i] : i \in DOMAIN s}
LowerCh == RangeOf(LowerSeq)
UpperCh == RangeOf(UpperSeq)
DigitCh == {"0","1","2","3","4","5","6","7","8","9"}
SpaceCh == {" "}
WordCh  == LowerCh \cup UpperCh \cup DigitCh \cup {"_"}
PunctCh == {"'", ":", "-", "?", "&", "\"", "(", ")", ".", ",", "/", "!"}
Char    == WordCh \cup SpaceCh \cup PunctCh

\* String.prototype.toLowerCase on one character
LowerOf(c) ==
  IF c \in UpperCh
    THEN LowerSeq[CHOOSE i \in DOMAIN UpperSeq : UpperSeq[i] = c]
    ELSE c

\* String.prototype.toLowerCase
toLowerCase(s) == [i \in DOMAIN s |-> LowerOf(s[i])]

\* String.prototype.trim
RECURSIVE TrimLeft(_)
TrimLeft(s) ==
  IF s # << >> /\ Head(s) \in SpaceCh THEN TrimLeft(Tail(s)) ELSE s
RECURSIVE TrimRight(_)
TrimRight(s) ==
  IF s # << >> /\ s[Len(s)] \in SpaceCh
    THEN TrimRight(SubSeq(s, 1, Len(s) - 1)) ELSE s
trim(s) == TrimRight(TrimLeft(s))

\* s occurs in t at position i
OccursAt(s, t, i) ==
  /\ i >= 1
  /\ i + Len(s) - 1 <= Len(t)
  /\ SubSeq(t, i, i + Len(s) - 1) = s

\* String.prototype.includes
includes(t, s) == \E i \in 1..(Len(t) + 1) : OccursAt(s, t, i)

\* String.prototype.startsWith / endsWith
startsWith(t, s) == OccursAt(s, t, 1)
endsWith(t, s) == OccursAt(s, t, Len(t) - Len(s) + 1)

Min(S) == CHOOSE x \in S : \A y \in S : x <= y
Max(S) == CHOOSE x \in S : \A y \in S : x >= y

(***************************************************************************)
(* Regular expressions.  A pattern is a tree; Ends(re, s, I) is the set of *)
(* positions at which a match of re that starts at a position of I can     *)
(* end.  A pattern with the i flag is written in lower case and is applied *)
(* to the lower-cased text.                                                *)
(***************************************************************************)
L(s)        == [k |-> "lit", s |-> s]
C(set)      == [k |-> "cls", c |-> set]
Sq(parts)   == [k |-> "seq", r |-> parts]
Alt(parts)  == [k |-> "alt", r |-> parts]
Star(r)     == [k |-> "star", r |-> r]
Plus(r)     == [k |-> "plus", r |-> r]
Opt(r)      == [k |-> "opt", r |-> r]
StarLazy(r) == Star(r)
PlusLazy(r) == Plus(r)
Rep(r, n)   == [k |-> "seq", r |-> [i \in 1..n |-> r]]
NLA(r)      == [k |-> "nla", r |-> r]
BOL         == [k |-> "bol"]
EOL         == [k |-> "eol"]
WB          == [k |-> "wb"]
ANY         == [k |-> "cls", c |-> Char]

IsWordAt(s, i) == i >= 1 /\ i <= Len(s) /\ s[i] \in WordCh

RECURSIVE Ends(_, _, _)
RECURSIVE EndsSeq(_, _, _, _)
RECURSIVE EndsStar(_, _, _)
Ends(re, s, I) ==
  CASE re.k = "lit"  -> {i + Len(re.s) : i \in {j \in I : OccursAt(re.s, s, j)}}
    [] re.k = "cls"  -> {i + 1 : i \in {j \in I : j <= Len(s) /\ s[j] \in re.c}}
    [] re.k = "seq"  -> EndsSeq(re.r, 1, s, I)
    [] re.k = "alt"  -> UNION {Ends(re.r[a], s, I) : a \in DOMAIN re.r}
    [] re.k = "opt"  -> I \cup Ends(re.r, s, I)
    [] re.k = "star" -> EndsStar(re.r, s, I)
    [] re.k = "plus" -> EndsStar(re.r, s, Ends(re.r, s, I))
    [] re.k = "bol"  -> I \cap {1}
    [] re.k = "eol"  -> I \cap {Len(s) + 1}
    [] re.k = "wb"   -> {i \in I : IsWordAt(s, i - 1) # IsWordAt(s, i)}
    [] re.k = "nla"  -> {i \in I : Ends(re.r, s, {i}) = {}}
EndsSeq(parts, n, s, I) ==
  IF n > Len(parts) \/ I = {} THEN I
  ELSE EndsSeq(parts, n + 1, s, Ends(parts[n], s, I))
EndsStar(r, s, I) ==
  LET J == I \cup Ends(r, s, I)
  IN IF J = I THEN I ELSE EndsStar(r, s, J)

\* RegExp.prototype.test: a match starting anywhere
Test(re, s) == Ends(re, s, 1..(Len(s) + 1)) # {}

\* pattern.test(text) for a pattern with the i flag
TestI(re, s) == Test(re, toLowerCase(s))

\* patterns.some(pattern => pattern.test(text)), patterns with the i flag
SomeI(patterns, s) == \E p \in DOMAIN patterns : TestI(patterns[p], s)

(***************************************************************************)
(* Query classifier: detectGeneralConversation and its pattern tables.     *)
(* Every pattern of these tables has the i flag, except /20\d{2}/, which   *)
(* has no letters.                                                         *)
(***************************************************************************)
\* generalPatterns (movie-butler-chain.ts lines 733-742)
generalPatterns ==
  \* line 734: /^(hi|hello|hey|thanks|thank you|ok|okay|cool|nice|great|awesome)$/i
  << Sq(<<BOL, Alt(<<L(<<"h","i">>), L(<<"h","e","l","l","o">>), L(<<"h","e","y">>), L(<<"t","h","a","n","k","s">>), L(<<"t","h","a","n","k"," ","y","o","u">>), L(<<"o","k">>), L(<<"o","k","a","y">>), L(<<"c","o","o","l">>), L(<<"n","i","c","e">>), L(<<"g","r","e","a","t">>), L(<<"a","w","e","s","o","m","e">>)>>), EOL>>),
  \* line 735: /^(what do you think|any other|anything else|what about|how about)/i
     Sq(<<BOL, Alt(<<L(<<"w","h","a","t"," ","d","o"," ","y","o","u"," ","t","h","i","n","k">>), L(<<"a","n","y"," ","o","t","h","e","r">>), L(<<"a","n","y","t","h","i","n","g"," ","e","l","s","e">>), L(<<"w","h","a","t"," ","a","b","o","u","t">>), L(<<"h","o","w"," ","a","b","o","u","t">>)>>)>>),
  \* line 736: /^(tell me more|more info|details|explain)/i
     Sq(<<BOL, Alt(<<L(<<"t","e","l","l"," ","m","e"," ","m","o","r","e">>), L(<<"m","o","r","e"," ","i","n","f","o">>), L(<<"d","e","t","a","i","l","s">>), L(<<"e","x","p","l","a","i","n">>)>>)>>),
  \* line 737: /^(recommend|suggest|any recommendations|what should i watch)/i
     Sq(<<BOL, Alt(<<L(<<"r","e","c","o","m","m","e","n","d">>), L(<<"s","u","g","g","e","s","t">>), L(<<"a","n","y"," ","r","e","c","o","m","m","e","n","d","a","t","i","o","n","s">>), L(<<"w","h","a","t"," ","s","h","o","u","l","d"," ","i"," ","w","a","t","c","h">>)>>)>>),
  \* line 738: /^(give me|show me|find me)\s+(some|any)?\s*(recommendations|suggestions)/i
     Sq(<<BOL, Alt(<<L(<<"g","i","v","e"," ","m","e">>), L(<<"s","h","o","w"," ","m","e">>), L(<<"f","i","n","d"," ","m","e">>)>>), Plus(C(SpaceCh)), Opt(Alt(<<L(<<"s","o","m","e">>), L(<<"a","n","y">>)>>)), Star(C(SpaceCh)), Alt(<<L(<<"r","e","c","o","m","m","e","n","d","a","t","i","o","n","s">>), L(<<"s","u","g","g","e","s","t","i","o","n","s">>)>>)>>),
  \* line 739: /^(suggest|recommend)\s+(a|an|some)?\s*(good|great|best|slow\s+burn|action|thriller|drama|comedy|horror|sci-fi|romance|mystery)\s*(movie|film)/i
     Sq(<<BOL, Alt(<<L(<<"s","u","g","g","e","s","t">>), L(<<"r","e","c","o","m","m","e","n","d">>)>>), Plus(C(SpaceCh)), Opt(Alt(<<L(<<"a">>), L(<<"a","n">>), L(<<"s","o","m","e">>)>>)), Star(C(SpaceCh)), Alt(<<L(<<"g","o","o","d">>), L(<<"g","r","e","a","t">>), L(<<"b","e","s","t">>), Sq(<<L(<<"s","l","o","w">>), Plus(C(SpaceCh)), L(<<"b","u","r","n">>)>>), L(<<"a","c","t","i","o","n">>), L(<<"t","h","r","i","l","l","e","r">>), L(<<"d","r","a","m","a">>), L(<<"c","o","m","e","d","y">>), L(<<"h","o","r","r","o","r">>), L(<<"s","c","i","-","f","i">>), L(<<"r","o","m","a","n","c","e">>), L(<<"m","y","s","t","e","r","y">>)>>), Star(C(SpaceCh)), Alt(<<L(<<"m","o","v","i","e">>), L(<<"f","i","l","m">>)>>)>>),
  \* line 740: /^(suggest|recommend)\s+(a|an|some)?\s*(slow\s+burn|underrated|hidden\s+gem|classic|recent|new|old)\s*(movie|film)?/i
     Sq(<<BOL, Alt(<<L(<<"s","u","g","g","e","s","t">>), L(<<"r","e","c","o","m","m","e","n","d">>)>>), Plus(C(SpaceCh)), Opt(Alt(<<L(<<"a">>), L(<<"a","n">>), L(<<"s","o","m","e">>)>>)), Star(C(SpaceCh)), Alt(<<Sq(<<L(<<"s","l","o","w">>), Plus(C(SpaceCh)), L(<<"b","u","r","n">>)>>), L(<<"u","n","d","e","r","r","a","t","e","d">>), Sq(<<L(<<"h","i","d","d","e","n">>), Plus(C(SpaceCh)), L(<<"g","e","m">>)>>), L(<<"c","l","a","s","s","i","c">>), L(<<"r","e","c","e","n","t">>), L(<<"n","e","w">>), L(<<"o","l","d">>)>>), Star(C(SpaceCh)), Opt(Alt(<<L(<<"m","o","v","i","e">>), L(<<"f","i","l","m">>)>>))>>),
  \* line 741: /^(any\s+good|what\s+are\s+some\s+good|can\s+you\s+suggest|what\s+about\s+some)\s*(slow\s+burn|action|thriller|drama|comedy|horror|sci-fi|romance|mystery)?\s*(movies|films)/i
     Sq(<<BOL, Alt(<<Sq(<<L(<<"a","n","y">>), Plus(C(SpaceCh)), L(<<"g","o","o","d">>)>>), Sq(<<L(<<"w","h","a","t">>), Plus(C(SpaceCh)), L(<<"a","r","e">>), Plus(C(SpaceCh)), L(<<"s","o","m","e">>), Plus(C(SpaceCh)), L(<<"g","o","o","d">>)>>), Sq(<<L(<<"c","a","n">>), Plus(C(SpaceCh)), L(<<"y","o","u">>), Plus(C(SpaceCh)), L(<<"s","u","g","g","e","s","t">>)>>), Sq(<<L(<<"w","h","a","t">>), Plus(C(SpaceCh)), L(<<"a","b","o","u","t">>), Plus(C(SpaceCh)), L(<<"s","o","m","e">>)>>)>>), Star(C(SpaceCh)), Opt(Alt(<<Sq(<<L(<<"s","l","o","w">>), Plus(C(SpaceCh)), L(<<"b","u","r","n">>)>>), L(<<"a","c","t","i","o","n">>), L(<<"t","h","r","i","l","l","e","r">>), L(<<"d","r","a","m","a">>), L(<<"c","o","m","e","d","y">>), L(<<"h","o","r","r","o","r">>), L(<<"s","c","i","-","f","i">>), L(<<"r","o","m","a","n","c","e">>), L(<<"m","y","s","t","e","r","y">>)>>)), Star(C(SpaceCh)), Alt(<<L(<<"m","o","v","i","e","s">>), L(<<"f","i","l","m","s">>)>>)>>) >>

\* comparisonPatterns (movie-butler-chain.ts lines 745-759)
comparisonPatterns ==
  \* line 746: /^(which one is better|which is better|what's better|whats better)/i
  << Sq(<<BOL, Alt(<<L(<<"w","h","i","c","h"," ","o","n","e"," ","i","s"," ","b","e","t","t","e","r">>), L(<<"w","h","i","c","h"," ","i","s"," ","b","e","t","t","e","r">>), L(<<"w","h","a","t","'","s"," ","b","e","t","t","e","r">>), L(<<"w","h","a","t","s"," ","b","e","t","t","e","r">>)>>)>>),
  \* line 747: /^(yes|yeah|yep|sure|no|nope|not really|maybe)$/i
     Sq(<<BOL, Alt(<<L(<<"y","e","s">>), L(<<"y","e","a","h">>), L(<<"y","e","p">>), L(<<"s","u","r","e">>), L(<<"n","o">>), L(<<"n","o","p","e">>), L(<<"n","o","t"," ","r","e","a","l","l","y">>), L(<<"m","a","y","b","e">>)>>), EOL>>),
  \* line 748: /^(so this is better|is this better|better than)/i
     Sq(<<BOL, Alt(<<L(<<"s","o"," ","t","h","i","s"," ","i","s"," ","b","e","t","t","e","r">>), L(<<"i","s"," ","t","h","i","s"," ","b","e","t","t","e","r">>), L(<<"b","e","t","t","e","r"," ","t","h","a","n">>)>>)>>),
  \* line 749: /^(which one|which movie|what about)/i
     Sq(<<BOL, Alt(<<L(<<"w","h","i","c","h"," ","o","n","e">>), L(<<"w","h","i","c","h"," ","m","o","v","i","e">>), L(<<"w","h","a","t"," ","a","b","o","u","t">>)>>)>>),
  \* line 750: /^(compare|comparison|vs|versus)/i
     Sq(<<BOL, Alt(<<L(<<"c","o","m","p","a","r","e">>), L(<<"c","o","m","p","a","r","i","s","o","n">>), L(<<"v","s">>), L(<<"v","e","r","s","u","s">>)>>)>>),
  \* line 751: /^(what do you think about|your opinion|do you prefer)/i
     Sq(<<BOL, Alt(<<L(<<"w","h","a","t"," ","d","o"," ","y","o","u"," ","t","h","i","n","k"," ","a","b","o","u","t">>), L(<<"y","o","u","r"," ","o","p","i","n","i","o","n">>), L(<<"d","o"," ","y","o","u"," ","p","r","e","f","e","r">>)>>)>>),
  \* line 752: /^(recommend|suggest)\s+(similar|something similar|more like)/i
     Sq(<<BOL, Alt(<<L(<<"r","e","c","o","m","m","e","n","d">>), L(<<"s","u","g","g","e","s","t">>)>>), Plus(C(SpaceCh)), Alt(<<L(<<"s","i","m","i","l","a","r">>), L(<<"s","o","m","e","t","h","i","n","g"," ","s","i","m","i","l","a","r">>), L(<<"m","o","r","e"," ","l","i","k","e">>)>>)>>),
  \* line 753: /^(can you recommend|could you recommend|please recommend)\s+(similar|something)/i
     Sq(<<BOL, Alt(<<L(<<"c","a","n"," ","y","o","u"," ","r","e","c","o","m","m","e","n","d">>), L(<<"c","o","u","l","d"," ","y","o","u"," ","r","e","c","o","m","m","e","n","d">>), L(<<"p","l","e","a","s","e"," ","r","e","c","o","m","m","e","n","d">>)>>), Plus(C(SpaceCh)), Alt(<<L(<<"s","i","m","i","l","a","r">>), L(<<"s","o","m","e","t","h","i","n","g">>)>>)>>),
  \* line 754: /^[a-zA-Z\s'"-]+\s+or\s+[a-zA-Z\s'"-]+\??$/i
     Sq(<<BOL, Plus(C(LowerCh \cup SpaceCh \cup {"'","\"","-"})), Plus(C(SpaceCh)), L(<<"o","r">>), Plus(C(SpaceCh)), Plus(C(LowerCh \cup SpaceCh \cup {"'","\"","-"})), Opt(L(<<"?">>)), EOL>>),
  \* line 755: /^(that one|this one|the first one|the second one|that movie|this movie)/i
     Sq(<<BOL, Alt(<<L(<<"t","h","a","t"," ","o","n","e">>), L(<<"t","h","i","s"," ","o","n","e">>), L(<<"t","h","e"," ","f","i","r","s","t"," ","o","n","e">>), L(<<"t","h","e"," ","s","e","c","o","n","d"," ","o","n","e">>), L(<<"t","h","a","t"," ","m","o","v","i","e">>), L(<<"t","h","i","s"," ","m","o","v","i","e">>)>>)>>),
  \* line 756: /^(more about|tell me more about|what else about)/i
     Sq(<<BOL, Alt(<<L(<<"m","o","r","e"," ","a","b","o","u","t">>), L(<<"t","e","l","l"," ","m","e"," ","m","o","r","e"," ","a","b","o","u","t">>), L(<<"w","h","a","t"," ","e","l","s","e"," ","a","b","o","u","t">>)>>)>>),
  \* line 757: /\b(forrest\s+gump|the\s+pianist)\s+or\s+\b/i
     Sq(<<WB, Alt(<<Sq(<<L(<<"f","o","r","r","e","s","t">>), Plus(C(SpaceCh)), L(<<"g","u","m","p">>)>>), Sq(<<L(<<"t","h","e">>), Plus(C(SpaceCh)), L(<<"p","i","a","n","i","s","t">>)>>)>>), Plus(C(SpaceCh)), L(<<"o","r">>), Plus(C(SpaceCh)), WB>>),
  \* line 758: /which\s+is\s+better.*(forrest\s+gump|the\s+pianist)/i
     Sq(<<L(<<"w","h","i","c","h">>), Plus(C(SpaceCh)), L(<<"i","s">>), Plus(C(SpaceCh)), L(<<"b","e","t","t","e","r">>), Star(ANY), Alt(<<Sq(<<L(<<"f","o","r","r","e","s","t">>), Plus(C(SpaceCh)), L(<<"g","u","m","p">>)>>), Sq(<<L(<<"t","h","e">>), Plus(C(SpaceCh)), L(<<"p","i","a","n","i","s","t">>)>>)>>)>>) >>

\* recommendationPatterns (movie-butler-chain.ts lines 762-772)
recommendationPatterns ==
  \* line 763: /^(recommend|suggest|any recommendations|what should i watch)(?!\s+similar|\s+like)/i
  << Sq(<<BOL, Alt(<<L(<<"r","e","c","o","m","m","e","n","d">>), L(<<"s","u","g","g","e","s","t">>), L(<<"a","n","y"," ","r","e","c","o","m","m","e","n","d","a","t","i","o","n","s">>), L(<<"w","h","a","t"," ","s","h","o","u","l","d"," ","i"," ","w","a","t","c","h">>)>>), NLA(Alt(<<Sq(<<Plus(C(SpaceCh)), L(<<"s","i","m","i","l","a","r">>)>>), Sq(<<Plus(C(SpaceCh)), L(<<"l","i","k","e">>)>>)>>))>>),
  \* line 764: /^(recommend something|suggest something|any good movies|something different|better movie)$/i
     Sq(<<BOL, Alt(<<L(<<"r","e","c","o","m","m","e","n","d"," ","s","o","m","e","t","h","i","n","g">>), L(<<"s","u","g","g","e","s","t"," ","s","o","m","e","t","h","i","n","g">>), L(<<"a","n","y"," ","g","o","o","d"," ","m","o","v","i","e","s">>), L(<<"s","o","m","e","t","h","i","n","g"," ","d","i","f","f","e","r","e","n","t">>), L(<<"b","e","t","t","e","r"," ","m","o","v","i","e">>)>>), EOL>>),
  \* line 765: /^(give me|show me|find me)\s+(a|some|any)?\s*(good|better|different)?\s*(movie|film)/i
     Sq(<<BOL, Alt(<<L(<<"g","i","v","e"," ","m","e">>), L(<<"s","h","o","w"," ","m","e">>), L(<<"f","i","n","d"," ","m","e">>)>>), Plus(C(SpaceCh)), Opt(Alt(<<L(<<"a">>), L(<<"s","o","m","e">>), L(<<"a","n","y">>)>>)), Star(C(SpaceCh)), Opt(Alt(<<L(<<"g","o","o","d">>), L(<<"b","e","t","t","e","r">>), L(<<"d","i","f","f","e","r","e","n","t">>)>>)), Star(C(SpaceCh)), Alt(<<L(<<"m","o","v","i","e">>), L(<<"f","i","l","m">>)>>)>>),
  \* line 766: /^(can you recommend|could you recommend|please recommend)\s*(similar|something|a movie)/i
     Sq(<<BOL, Alt(<<L(<<"c","a","n"," ","y","o","u"," ","r","e","c","o","m","m","e","n","d">>), L(<<"c","o","u","l","d"," ","y","o","u"," ","r","e","c","o","m","m","e","n","d">>), L(<<"p","l","e","a","s","e"," ","r","e","c","o","m","m","e","n","d">>)>>), Star(C(SpaceCh)), Alt(<<L(<<"s","i","m","i","l","a","r">>), L(<<"s","o","m","e","t","h","i","n","g">>), L(<<"a"," ","m","o","v","i","e">>)>>)>>),
  \* line 767: /^(recommend|suggest)\s+(similar|something similar)\s*(movie|film)?/i
     Sq(<<BOL, Alt(<<L(<<"r","e","c","o","m","m","e","n","d">>), L(<<"s","u","g","g","e","s","t">>)>>), Plus(C(SpaceCh)), Alt(<<L(<<"s","i","m","i","l","a","r">>), L(<<"s","o","m","e","t","h","i","n","g"," ","s","i","m","i","l","a","r">>)>>), Star(C(SpaceCh)), Opt(Alt(<<L(<<"m","o","v","i","e">>), L(<<"f","i","l","m">>)>>))>>),
  \* line 768: /^(suggest|recommend)\s+(a|an|some)?\s*(good|great|best|slow\s+burn|action|thriller|drama|comedy|horror|sci-fi|romance|mystery)\s*(movie|film)/i
     Sq(<<BOL, Alt(<<L(<<"s","u","g","g","e","s","t">>), L(<<"r","e","c","o","m","m","e","n","d">>)>>), Plus(C(SpaceCh)), Opt(Alt(<<L(<<"a">>), L(<<"a","n">>), L(<<"s","o","m","e">>)>>)), Star(C(SpaceCh)), Alt(<<L(<<"g","o","o","d">>), L(<<"g","r","e","a","t">>), L(<<"b","e","s","t">>), Sq(<<L(<<"s","l","o","w">>), Plus(C(SpaceCh)), L(<<"b","u","r","n">>)>>), L(<<"a","c","t","i","o","n">>), L(<<"t","h","r","i","l","l","e","r">>), L(<<"d","r","a","m","a">>), L(<<"c","o","m","e","d","y">>), L(<<"h","o","r","r","o","r">>), L(<<"s","c","i","-","f","i">>), L(<<"r","o","m","a","n","c","e">>), L(<<"m","y","s","t","e","r","y">>)>>), Star(C(SpaceCh)), Alt(<<L(<<"m","o","v","i","e">>), L(<<"f","i","l","m">>)>>)>>),
  \* line 769: /^(suggest|recommend)\s+(a|an|some)?\s*(slow\s+burn|underrated|hidden\s+gem|classic|recent|new|old)\s*(movie|film)?/i
     Sq(<<BOL, Alt(<<L(<<"s","u","g","g","e","s","t">>), L(<<"r","e","c","o","m","m","e","n","d">>)>>), Plus(C(SpaceCh)), Opt(Alt(<<L(<<"a">>), L(<<"a","n">>), L(<<"s","o","m","e">>)>>)), Star(C(SpaceCh)), Alt(<<Sq(<<L(<<"s","l","o","w">>), Plus(C(SpaceCh)), L(<<"b","u","r","n">>)>>), L(<<"u","n","d","e","r","r","a","t","e","d">>), Sq(<<L(<<"h","i","d","d","e","n">>), Plus(C(SpaceCh)), L(<<"g","e","m">>)>>), L(<<"c","l","a","s","s","i","c">>), L(<<"r","e","c","e","n","t">>), L(<<"n","e","w">>), L(<<"o","l","d">>)>>), Star(C(SpaceCh)), Opt(Alt(<<L(<<"m","o","v","i","e">>), L(<<"f","i","l","m">>)>>))>>),
  \* line 770: /^(any\s+good|what\s+are\s+some\s+good|can\s+you\s+suggest|what\s+about\s+some)\s*(slow\s+burn|action|thriller|drama|comedy|horror|sci-fi|romance|mystery)?\s*(movies|films)/i
     Sq(<<BOL, Alt(<<Sq(<<L(<<"a","n","y">>), Plus(C(SpaceCh)), L(<<"g","o","o","d">>)>>), Sq(<<L(<<"w","h","a","t">>), Plus(C(SpaceCh)), L(<<"a","r","e">>), Plus(C(SpaceCh)), L(<<"s","o","m","e">>), Plus(C(SpaceCh)), L(<<"g","o","o","d">>)>>), Sq(<<L(<<"c","a","n">>), Plus(C(SpaceCh)), L(<<"y","o","u">>), Plus(C(SpaceCh)), L(<<"s","u","g","g","e","s","t">>)>>), Sq(<<L(<<"w","h","a","t">>), Plus(C(SpaceCh)), L(<<"a","b","o","u","t">>), Plus(C(SpaceCh)), L(<<"s","o","m","e">>)>>)>>), Star(C(SpaceCh)), Opt(Alt(<<Sq(<<L(<<"s","l","o","w">>), Plus(C(SpaceCh)), L(<<"b","u","r","n">>)>>), L(<<"a","c","t","i","o","n">>), L(<<"t","h","r","i","l","l","e","r">>), L(<<"d","r","a","m","a">>), L(<<"c","o","m","e","d","y">>), L(<<"h","o","r","r","o","r">>), L(<<"s","c","i","-","f","i">>), L(<<"r","o","m","a","n","c","e">>), L(<<"m","y","s","t","e","r","y">>)>>)), Star(C(SpaceCh)), Alt(<<L(<<"m","o","v","i","e","s">>), L(<<"f","i","l","m","s">>)>>)>>),
  \* line 771: /^(what\s+about|how\s+about)\s+(a|an|some)?\s*(good|slow\s+burn|action|thriller|drama|comedy)?\s*(movie|film)/i
     Sq(<<BOL, Alt(<<Sq(<<L(<<"w","h","a","t">>), Plus(C(SpaceCh)), L(<<"a","b","o","u","t">>)>>), Sq(<<L(<<"h","o","w">>), Plus(C(SpaceCh)), L(<<"a","b","o","u","t">>)>>)>>), Plus(C(SpaceCh)), Opt(Alt(<<L(<<"a">>), L(<<"a","n">>), L(<<"s","o","m","e">>)>>)), Star(C(SpaceCh)), Opt(Alt(<<L(<<"g","o","o","d">>), Sq(<<L(<<"s","l","o","w">>), Plus(C(SpaceCh)), L(<<"b","u","r","n">>)>>), L(<<"a","c","t","i","o","n">>), L(<<"t","h","r","i","l","l","e","r">>), L(<<"d","r","a","m","a">>), L(<<"c","o","m","e","d","y">>)>>)), Star(C(SpaceCh)), Alt(<<L(<<"m","o","v","i","e">>), L(<<"f","i","l","m">>)>>)>>) >>

\* movieQueryPatterns (movie-butler-chain.ts lines 773-780)
movieQueryPatterns ==
  \* line 774: /^(how is|how was|how's|hows)\s+[a-zA-Z]/i
  << Sq(<<BOL, Alt(<<L(<<"h","o","w"," ","i","s">>), L(<<"h","o","w"," ","w","a","s">>), L(<<"h","o","w","'","s">>), L(<<"h","o","w","s">>)>>), Plus(C(SpaceCh)), C(LowerCh)>>),
  \* line 775: /^(what about|tell me about|about)\s+[a-zA-Z][a-zA-Z\s:'-]+$/i
     Sq(<<BOL, Alt(<<L(<<"w","h","a","t"," ","a","b","o","u","t">>), L(<<"t","e","l","l"," ","m","e"," ","a","b","o","u","t">>), L(<<"a","b","o","u","t">>)>>), Plus(C(SpaceCh)), C(LowerCh), Plus(C(LowerCh \cup SpaceCh \cup {":","'","-"})), EOL>>),
  \* line 776: /^(give recommendation for|review)\s+[a-zA-Z]/i
     Sq(<<BOL, Alt(<<L(<<"g","i","v","e"," ","r","e","c","o","m","m","e","n","d","a","t","i","o","n"," ","f","o","r">>), L(<<"r","e","v","i","e","w">>)>>), Plus(C(SpaceCh)), C(LowerCh)>>),
  \* line 777: /^[a-zA-Z][a-zA-Z\s:'-]+$/i
     Sq(<<BOL, C(LowerCh), Plus(C(LowerCh \cup SpaceCh \cup {":","'","-"})), EOL>>),
  \* line 778: /(movie|film)\s+[a-zA-Z]/i
     Sq(<<Alt(<<L(<<"m","o","v","i","e">>), L(<<"f","i","l","m">>)>>), Plus(C(SpaceCh)), C(LowerCh)>>),
  \* line 779: /[a-zA-Z]+\s+(movie|film)$/i
     Sq(<<Plus(C(LowerCh)), Plus(C(SpaceCh)), Alt(<<L(<<"m","o","v","i","e">>), L(<<"f","i","l","m">>)>>), EOL>>) >>

\* movieContextPatterns (movie-butler-chain.ts lines 783-799)
movieContextPatterns ==
  \* line 784: /^(no|nope|not that|different|wrong|another)\s+[a-zA-Z]/i
  << Sq(<<BOL, Alt(<<L(<<"n","o">>), L(<<"n","o","p","e">>), L(<<"n","o","t"," ","t","h","a","t">>), L(<<"d","i","f","f","e","r","e","n","t">>), L(<<"w","r","o","n","g">>), L(<<"a","n","o","t","h","e","r">>)>>), Plus(C(SpaceCh)), C(LowerCh)>>),
  \* line 785: /(recent|latest|newer|new one|newest)\s+[a-zA-Z]/i
     Sq(<<Alt(<<L(<<"r","e","c","e","n","t">>), L(<<"l","a","t","e","s","t">>), L(<<"n","e","w","e","r">>), L(<<"n","e","w"," ","o","n","e">>), L(<<"n","e","w","e","s","t">>)>>), Plus(C(SpaceCh)), C(LowerCh)>>),
  \* line 786: /(original|first|older|classic)\s+[a-zA-Z]/i
     Sq(<<Alt(<<L(<<"o","r","i","g","i","n","a","l">>), L(<<"f","i","r","s","t">>), L(<<"o","l","d","e","r">>), L(<<"c","l","a","s","s","i","c">>)>>), Plus(C(SpaceCh)), C(LowerCh)>>),
  \* line 787: /(that movie|that film|this movie|this film)/i
     Alt(<<L(<<"t","h","a","t"," ","m","o","v","i","e">>), L(<<"t","h","a","t"," ","f","i","l","m">>), L(<<"t","h","i","s"," ","m","o","v","i","e">>), L(<<"t","h","i","s"," ","f","i","l","m">>)>>),
  \* line 788: /(for .+|about .+)/i
     Alt(<<Sq(<<L(<<"f","o","r"," ">>), Plus(ANY)>>), Sq(<<L(<<"a","b","o","u","t"," ">>), Plus(ANY)>>)>>),
  \* line 789: /(korean|japanese|french|italian|spanish|chinese).*(movie|film)/i
     Sq(<<Alt(<<L(<<"k","o","r","e","a","n">>), L(<<"j","a","p","a","n","e","s","e">>), L(<<"f","r","e","n","c","h">>), L(<<"i","t","a","l","i","a","n">>), L(<<"s","p","a","n","i","s","h">>), L(<<"c","h","i","n","e","s","e">>)>>), Star(ANY), Alt(<<L(<<"m","o","v","i","e">>), L(<<"f","i","l","m">>)>>)>>),
  \* line 790: /(movie|film).*(korean|japanese|french|italian|spanish|chinese)/i
     Sq(<<Alt(<<L(<<"m","o","v","i","e">>), L(<<"f","i","l","m">>)>>), Star(ANY), Alt(<<L(<<"k","o","r","e","a","n">>), L(<<"j","a","p","a","n","e","s","e">>), L(<<"f","r","e","n","c","h">>), L(<<"i","t","a","l","i","a","n">>), L(<<"s","p","a","n","i","s","h">>), L(<<"c","h","i","n","e","s","e">>)>>)>>),
  \* line 791: /20\d{2}/
     Sq(<<L(<<"2","0">>), Rep(C(DigitCh), 2)>>),
  \* line 792: /goosebumps.*movie/i
     Sq(<<L(<<"g","o","o","s","e","b","u","m","p","s">>), Star(ANY), L(<<"m","o","v","i","e">>)>>),
  \* line 793: /movie.*goosebumps/i
     Sq(<<L(<<"m","o","v","i","e">>), Star(ANY), L(<<"g","o","o","s","e","b","u","m","p","s">>)>>),
  \* line 794: /(sequel|its sequel|part 2|part ii|part two)\s+[a-zA-Z]/i
     Sq(<<Alt(<<L(<<"s","e","q","u","e","l">>), L(<<"i","t","s"," ","s","e","q","u","e","l">>), L(<<"p","a","r","t"," ","2">>), L(<<"p","a","r","t"," ","i","i">>), L(<<"p","a","r","t"," ","t","w","o">>)>>), Plus(C(SpaceCh)), C(LowerCh)>>),
  \* line 795: /^[A-Z][a-zA-Z\s:'-]+\s+(19\d{2}|20\d{2})$/i
     Sq(<<BOL, C(LowerCh), Plus(C(LowerCh \cup SpaceCh \cup {":","'","-"})), Plus(C(SpaceCh)), Alt(<<Sq(<<L(<<"1","9">>), Rep(C(DigitCh), 2)>>), Sq(<<L(<<"2","0">>), Rep(C(DigitCh), 2)>>)>>), EOL>>),
  \* line 796: /^(it's|its)\s+(part\s+two|part\s+2|part\s+ii|sequel)/i
     Sq(<<BOL, Alt(<<L(<<"i","t","'","s">>), L(<<"i","t","s">>)>>), Plus(C(SpaceCh)), Alt(<<Sq(<<L(<<"p","a","r","t">>), Plus(C(SpaceCh)), L(<<"t","w","o">>)>>), Sq(<<L(<<"p","a","r","t">>), Plus(C(SpaceCh)), L(<<"2">>)>>), Sq(<<L(<<"p","a","r","t">>), Plus(C(SpaceCh)), L(<<"i","i">>)>>), L(<<"s","e","q","u","e","l">>)>>)>>),
  \* line 797: /(part\s+two|part\s+2|part\s+ii)$/i
     Sq(<<Alt(<<Sq(<<L(<<"p","a","r","t">>), Plus(C(SpaceCh)), L(<<"t","w","o">>)>>), Sq(<<L(<<"p","a","r","t">>), Plus(C(SpaceCh)), L(<<"2">>)>>), Sq(<<L(<<"p","a","r","t">>), Plus(C(SpaceCh)), L(<<"i","i">>)>>)>>), EOL>>),
  \* line 798: /(glass\s+onion|onion\s+glass)/i
     Alt(<<Sq(<<L(<<"g","l","a","s","s">>), Plus(C(SpaceCh)), L(<<"o","n","i","o","n">>)>>), Sq(<<L(<<"o","n","i","o","n">>), Plus(C(SpaceCh)), L(<<"g","l","a","s","s">>)>>)>>) >>

\* line 820: /^(yes|yeah|yep|sure|no|nope)$/i
contextualResponsePattern ==
  Sq(<<BOL, Alt(<<L(<<"y","e","s">>), L(<<"y","e","a","h">>), L(<<"y","e","p">>), L(<<"s","u","r","e">>), L(<<"n","o">>), L(<<"n","o","p","e">>)>>), EOL>>)

\* line 823: /^[A-Z][a-z\s:'-]+(\s\d{4})?$/i
movieTitlePattern ==
  Sq(<<BOL, C(LowerCh), Plus(C(LowerCh \cup SpaceCh \cup {":","'","-"})), Opt(Sq(<<C(SpaceCh), Rep(C(DigitCh), 4)>>)), EOL>>)

\* containsMovieKeywords: the keyword list of lines 888-891
movieKeywords ==
  << <<"m","o","v","i","e">>,
     <<"f","i","l","m">>,
     <<"w","a","t","c","h">>,
     <<"s","e","e","n">>,
     <<"d","i","r","e","c","t","o","r">>,
     <<"a","c","t","o","r">>,
     <<"a","c","t","r","e","s","s">>,
     <<"r","a","t","i","n","g">>,
     <<"i","m","d","b">>,
     <<"r","e","v","i","e","w">>,
     <<"p","l","o","t">>,
     <<"g","e","n","r","e">>,
     <<"c","a","s","t">>,
     <<"t","r","a","i","l","e","r">> >>

containsMovieKeywords(query) ==
  LET lowerQuery == toLowerCase(query)
  IN \E k \in DOMAIN movieKeywords : includes(lowerQuery, movieKeywords[k])

isMovieQuery(query) == SomeI(movieQueryPatterns, trim(query))
isGeneral(query) == SomeI(generalPatterns, trim(query))
isComparison(query) == SomeI(comparisonPatterns, trim(query))
isRecommendationRequest(query) == SomeI(recommendationPatterns, trim(query))
isMovieContext(query) == SomeI(movieContextPatterns, trim(query))
isShort(query) == Len(trim(query)) < 50
isContextualResponse(query) == TestI(contextualResponsePattern, trim(query))
hasMovieTitlePattern(query) ==
  TestI(movieTitlePattern, trim(query)) /\ Len(trim(query)) > 3

\* detectGeneralConversation: TRUE routes the query to
\* handleGeneralConversation, FALSE to title extraction and lookup.  The
\* checks are in the order of the code's returns.
detectGeneralConversation(query) ==
  IF isMovieQuery(query) THEN FALSE
  ELSE IF isComparison(query) THEN TRUE
  ELSE IF isContextualResponse(query) THEN TRUE
  ELSE IF isRecommendationRequest(query) /\ ~isMovieContext(query) THEN TRUE
  ELSE IF (isMovieContext(query) \/ hasMovieTitlePattern(query))
          /\ ~isComparison(query) /\ ~isContextualResponse(query) THEN FALSE
  ELSE \/ isGeneral(query)
       \/ isComparison(query)
       \/ isContextualResponse(query)
       \/ /\ isShort(query)
          /\ ~containsMovieKeywords(query)
          /\ ~hasMovieTitlePattern(query)
          /\ ~isMovieQuery(query)


(***************************************************************************)
(* Data.  NULL stands for null, undefined and the empty string (all three  *)
(* are falsy in the code's || chains).  Texts, ids and timestamps are      *)
(* sequences, so that each of them can be compared with NULL.  OMDB is the *)
(* external catalog as the detail fetch returns it, in catalog order; the  *)
(* fields the pipeline only copies (Poster, Plot, Director, imdbVotes) are *)
(* left out.                                                               *)
(***************************************************************************)
NULL == << >>

OMDB ==
  << [Title |-> <<"W","o","n","d","e","r"," ","W","o","m","a","n">>,
      Year |-> <<"2","0","1","7">>, imdbID |-> <<"t","t","0","4","5","1","2","7","9">>,
      imdbRating |-> <<"7",".","3">>,
      Genre |-> <<"A","c","t","i","o","n",","," ","A","d","v","e","n","t","u","r","e",","," ","F","a","n","t","a","s","y">>,
      Actors |-> <<"G","a","l"," ","G","a","d","o","t",","," ","C","h","r","i","s"," ","P","i","n","e">>],
     [Title |-> <<"W","o","n","d","e","r"," ","W","o","m","a","n"," ","1","9","8","4">>,
      Year |-> <<"2","0","2","0">>, imdbID |-> <<"t","t","7","1","2","6","9","4","8">>,
      imdbRating |-> <<"5",".","4">>,
      Genre |-> <<"A","c","t","i","o","n",","," ","A","d","v","e","n","t","u","r","e",","," ","F","a","n","t","a","s","y">>,
      Actors |-> <<"G","a","l"," ","G","a","d","o","t",","," ","C","h","r","i","s"," ","P","i","n","e">>],
     [Title |-> <<"2","8"," ","D","a","y","s"," ","L","a","t","e","r">>,
      Year |-> <<"2","0","0","2">>, imdbID |-> <<"t","t","0","2","8","9","0","4","3">>,
      imdbRating |-> <<"7",".","5">>,
      Genre |-> <<"D","r","a","m","a",","," ","H","o","r","r","o","r",","," ","S","c","i","-","F","i">>,
      Actors |-> <<"C","i","l","l","i","a","n"," ","M","u","r","p","h","y",","," ","N","a","o","m","i","e"," ","H","a","r","r","i","s">>],
     [Title |-> <<"I","n","c","e","p","t","i","o","n">>,
      Year |-> <<"2","0","1","0">>, imdbID |-> <<"t","t","1","3","7","5","6","6","6">>,
      imdbRating |-> <<"8",".","8">>,
      Genre |-> <<"A","c","t","i","o","n",","," ","A","d","v","e","n","t","u","r","e",","," ","S","c","i","-","F","i">>,
      Actors |-> <<"L","e","o","n","a","r","d","o"," ","D","i","C","a","p","r","i","o",","," ","E","l","l","i","o","t"," ","P","a","g","e">>],
     [Title |-> <<"B","a","t","m","a","n">>,
      Year |-> <<"1","9","8","9">>, imdbID |-> <<"t","t","0","0","9","6","8","9","5">>,
      imdbRating |-> <<"7",".","0">>,
      Genre |-> <<"A","c","t","i","o","n",","," ","A","d","v","e","n","t","u","r","e">>,
      Actors |-> <<"M","i","c","h","a","e","l"," ","K","e","a","t","o","n",","," ","J","a","c","k"," ","N","i","c","h","o","l","s","o","n">>],
     [Title |-> <<"T","h","e"," ","R","o","o","m">>,
      Year |-> <<"2","0","0","3">>, imdbID |-> <<"t","t","0","3","6","8","2","2","6">>,
      imdbRating |-> <<"6",".","9">>,
      Genre |-> <<"D","r","a","m","a">>,
      Actors |-> <<"T","o","m","m","y"," ","W","i","s","e","a","u",","," ","G","r","e","g"," ","S","e","s","t","e","r","o">>],
     [Title |-> <<"A","c","e">>,
      Year |-> <<"2","0","2","5">>, imdbID |-> <<"t","t","9","9","9","9","0","0","1">>,
      imdbRating |-> <<"N","/","A">>,
      Genre |-> <<"W","e","s","t","e","r","n">>,
      Actors |-> <<"V","i","j","a","y"," ","S","e","t","h","u","p","a","t","h","i",","," ","Y","o","g","i"," ","B","a","b","u">>] >>

\* a || b
OrElse(a, b) == IF a = NULL THEN b ELSE a

InSeq(x, s) == \E i \in DOMAIN s : s[i] = x

\* a slice that keeps the oldest n entries instead of the newest
SliceFirst(s, n) ==
  IF Len(s) > n THEN SubSeq(s, 1, n) ELSE s

\* Array.prototype.slice(-n)
SliceLast(s, n) ==
  IF Len(s) > n THEN SubSeq(s, Len(s) - n + 1, Len(s)) ELSE s

\* the last element of a non-empty array
Last(s) == s[Len(s)]

\* movieData.f when the object has such a property, undefined otherwise
Field(r, f) == IF f \in DOMAIN r THEN r[f] ELSE NULL

\* crypto.randomUUID() and a database-generated id: the n-th fresh id
Uuid(n) == <<"id", n>>

\* new Date().toISOString() and a database default now(): the time n
Timestamp(n) == <<"at", n>>

\* normalizeMovieData: movieData is a catalog record (Title, Year, imdbID,
\* imdbRating, Genre, Actors) or a row of the movies table (id, title,
\* year, imdbid, imdbrating, genre, actors, created_at); n numbers the
\* fresh id and the current time
normalizeMovieData(movieData, n) ==
  [id         |-> OrElse(Field(movieData, "id"), Uuid(n)),
   title      |-> OrElse(Field(movieData, "Title"), Field(movieData, "title")),
   year       |-> OrElse(Field(movieData, "Year"), Field(movieData, "year")),
   imdbID     |-> OrElse(Field(movieData, "imdbID"),
                         Field(movieData, "imdbid")),
   imdbRating |-> OrElse(Field(movieData, "imdbRating"),
                         OrElse(Field(movieData, "imdbrating"),
                                <<"N","/","A">>)),
   actors     |-> OrElse(Field(movieData, "Actors"),
                         Field(movieData, "actors")),
   genre      |-> OrElse(Field(movieData, "Genre"), Field(movieData, "genre")),
   created_at |-> OrElse(Field(movieData, "created_at"), Timestamp(n))]

(***************************************************************************)
(* Conversation memory: saveUserMessage and saveAssistantMessage.  The     *)
(* timestamp of a message (Date.now()) is not modelled.                    *)
(***************************************************************************)
\* the conversation loadConversation creates when none is stored
NewConversation ==
  [messages |-> << >>, discussedMovies |-> << >>,
   userPreferences |-> [genres |-> << >>],
   totalTokens |-> 0, turnCount |-> 0]

\* a saveUserMessage that pushes the entry and leaves turnCount alone
PushUserMessage(conversation, message) ==
  [conversation EXCEPT
     !.messages = Append(@, [role |-> "user", content |-> message])]

\* saveUserMessage on a conversation of the store
saveUserMessage(conversation, message) ==
  LET pushed == Append(conversation.messages,
                       [role |-> "user", content |-> message])
  IN [conversation EXCEPT
        !.messages = IF Len(pushed) > 10 THEN SliceLast(pushed, 10)
                                          ELSE pushed,
        !.turnCount = @ + 1]

\* genre.split(',')[0].trim() when the genre contains a comma
FirstGenre(genre) ==
  IF \E i \in DOMAIN genre : genre[i] = ","
    THEN trim(SubSeq(genre, 1,
                     Min({i \in DOMAIN genre : genre[i] = ","}) - 1))
    ELSE genre

Unknown == <<"U","n","k","n","o","w","n">>

\* the entry saveAssistantMessage pushes on discussedMovies
MovieEntry(movieData) ==
  [title  |-> OrElse(Field(movieData, "title"), Field(movieData, "Title")),
   genre  |-> OrElse(FirstGenre(OrElse(Field(movieData, "genre"),
                                       Field(movieData, "Genre"))),
                     Unknown),
   rating |-> OrElse(Field(movieData, "imdbRating"), <<"N","/","A">>)]

\* saveAssistantMessage on a conversation of the store (the in-memory part;
\* the upsert that follows belongs to the action that calls it)
saveAssistantMessage(conversation, message, movieData) ==
  LET withMessage ==
        [conversation EXCEPT
           !.messages = Append(@, [role |-> "assistant", content |-> message])]
  IN IF movieData = NULL THEN withMessage
     ELSE
       LET genre == FirstGenre(OrElse(Field(movieData, "genre"),
                                      Field(movieData, "Genre")))
           pushed == Append(withMessage.discussedMovies, MovieEntry(movieData))
           genres == withMessage.userPreferences.genres
           newGenres ==
             IF genre # NULL /\ genre # Unknown /\ ~InSeq(genre, genres)
               THEN (IF Len(genres) + 1 > 3
                       THEN SliceLast(Append(genres, genre), 3)
                       ELSE Append(genres, genre))
               ELSE genres
       IN [withMessage EXCEPT
             !.discussedMovies =
                IF Len(pushed) > 5 THEN SliceLast(pushed, 5) ELSE pushed,
             !.userPreferences = [genres |-> newGenres]]

(***************************************************************************)
(* State.                                                                  *)
(*   memory, appended, discussed: one ConversationMemory driven directly   *)
(*     by saveUserMessage / saveAssistantMessage, with the history of      *)
(*     everything appended to it;                                          *)
(*   call, ret: one application of a function of the chain to an input;    *)
(*   moviesTable, recommendationsTable, conversationsTable, requests,      *)
(*     clock, faults: the store and the requests in flight of the          *)
(*     pipeline.                                                           *)
(***************************************************************************)
VARIABLES memory, appended, discussed, call, ret,
          moviesTable, recommendationsTable, conversationsTable,
          requests, clock, faults

memVars == <<memory, appended, discussed>>
fnVars == <<call, ret>>
pipeVars == <<moviesTable, recommendationsTable, conversationsTable,
              requests, clock, faults>>
vars == <<memVars, fnVars, pipeVars>>

InitMemory ==
  /\ memory = NewConversation
  /\ appended = << >>
  /\ discussed = << >>

InitFn ==
  /\ call = NULL
  /\ ret = NULL

(***************************************************************************)
(* Memory bounds: sequences of saveUserMessage and saveAssistantMessage    *)
(* calls on a conversation that starts empty.                              *)
(***************************************************************************)
MaxAppends == 12
MaxDiscussions == 6

DigitSeq == <<"0","1","2","3","4","5","6","7","8","9">>

\* the decimal numeral of a natural number
RECURSIVE Decimal(_)
Decimal(n) ==
  IF n < 10 THEN <<DigitSeq[n + 1]>>
  ELSE Decimal(n \div 10) \o <<DigitSeq[(n % 10) + 1]>>

\* the text of the n-th message of a conversation: every message differs
MessageText(n) == <<"m","s","g"," ">> \o Decimal(n)

\* saveUserMessage(conversationId, message)
UserTurn ==
  /\ Len(appended) < MaxAppends
  /\ LET text == MessageText(Len(appended) + 1)
     IN /\ memory' = saveUserMessage(memory, text)
        /\ appended' = Append(appended, [role |-> "user", content |-> text])
  /\ UNCHANGED <<discussed, fnVars, pipeVars>>

\* saveAssistantMessage(conversationId, message) without movie data
AssistantTurn ==
  /\ Len(appended) < MaxAppends
  /\ LET text == MessageText(Len(appended) + 1)
     IN /\ memory' = saveAssistantMessage(memory, text, NULL)
        /\ appended' = Append(appended,
                              [role |-> "assistant", content |-> text])
  /\ UNCHANGED <<discussed, fnVars, pipeVars>>

\* saveAssistantMessage(conversationId, message, movieData) for a movie of
\* the catalog; discussed records the catalog index
DiscussMovie ==
  /\ Len(discussed) < MaxDiscussions
  /\ \E m \in DOMAIN OMDB :
       LET text == MessageText(Len(appended) + 1)
       IN /\ memory' = saveAssistantMessage(memory, text,
                         normalizeMovieData(OMDB[m], Len(appended) + 1))
          /\ appended' = Append(appended,
                                [role |-> "assistant", content |-> text])
          /\ discussed' = Append(discussed, m)
  /\ UNCHANGED <<fnVars, pipeVars>>

\* the conversation ids and the users of the requests
ConversationIds == {<<"c","1">>}
UserIds == {<<"u","1">>}

MaxFaults == 1

\* the store is empty and no request has been received
InitPipeline ==
  /\ moviesTable = << >>
  /\ recommendationsTable = << >>
  /\ conversationsTable = [c \in ConversationIds |-> NULL]
  /\ requests = << >>
  /\ clock = 0
  /\ faults = MaxFaults

Init == InitMemory /\ InitFn /\ InitPipeline

NextMessages == UserTurn \/ AssistantTurn
SpecMessages == Init /\ [][NextMessages]_vars

NextMovies == DiscussMovie
SpecMovies == Init /\ [][NextMovies]_vars

\* C4: after any sequence of saveUserMessage and saveAssistantMessage
\* calls on a conversation that started empty, messages has at most 10
\* entries and is the last min(n, 10) of the n messages appended, in
\* append order; after 11 user messages its length is exactly 10.
C4_MessagesAreLastTen ==
  LET n == Len(appended)
      k == Len(memory.messages)
      users == {i \in 1..n : appended[i].role = "user"}
  IN /\ k <= 10
     /\ k = (IF n < 10 THEN n ELSE 10)
     /\ \A i \in 1..k : i + (n - k) \in 1..n
                        /\ memory.messages[i] = appended[i + (n - k)]
     /\ (Cardinality(users) = 11 => k = 10)

\* C5: after any sequence of assistant turns that carry a movie,
\* discussedMovies has at most 5 entries and they are the most recently
\* discussed movies in discussion order; after 6 distinct movies its
\* length is exactly 5 and the first-discussed movie is absent.
C5_DiscussedAreLastFive ==
  LET n == Len(discussed)
      dm == memory.discussedMovies
      k == Len(dm)
      distinct == \A i, j \in 1..n : i # j => discussed[i] # discussed[j]
  IN /\ k <= 5
     /\ k = (IF n < 5 THEN n ELSE 5)
     /\ \A i \in 1..k : dm[i].title = OMDB[discussed[i + (n - k)]].Title
     /\ (n = 6 /\ distinct) =>
          /\ k = 5
          /\ \A i \in 1..k : dm[i].title # OMDB[discussed[1]].Title

\* six distinct movies have been discussed and the list holds five
C5_Witness ==
  /\ Len(discussed) = 6
  /\ \A i, j \in 1..6 : i # j => discussed[i] # discussed[j]
  /\ Len(memory.discussedMovies) = 5

(***************************************************************************)
(* generateRecommendation: the recommendation text and worth_watching on   *)
(* the model path and on the fallback path.                                *)
(***************************************************************************)
\* the numeric value of a non-empty sequence of digits
RECURSIVE NumberOf(_)
NumberOf(ds) ==
  IF ds = << >> THEN 0
  ELSE 10 * NumberOf(SubSeq(ds, 1, Len(ds) - 1))
       + (CHOOSE d \in 0..9 : DigitSeq[d + 1] = ds[Len(ds)])

\* the longest prefix of s made of digits
RECURSIVE DigitPrefix(_)
DigitPrefix(s) ==
  IF s # << >> /\ Head(s) \in DigitCh
    THEN <<Head(s)>> \o DigitPrefix(Tail(s)) ELSE << >>

RECURSIVE Power10(_)
Power10(k) == IF k = 0 THEN 1 ELSE 10 * Power10(k - 1)

\* parseFloat: leading white space, an optional sign, digits and an optional
\* fraction are read; what follows is ignored.  The result is NaN or the
\* number m / 10^scale (negated when neg).  Exponents and "Infinity" do
\* not occur in the ratings given to it.
parseFloat(s) ==
  LET t == TrimLeft(s)
      signed == t # << >> /\ Head(t) \in {"+", "-"}
      u == IF signed THEN Tail(t) ELSE t
      whole == DigitPrefix(u)
      afterWhole == SubSeq(u, Len(whole) + 1, Len(u))
      dotted == afterWhole # << >> /\ Head(afterWhole) = "."
      frac == IF dotted THEN DigitPrefix(Tail(afterWhole)) ELSE << >>
  IN IF whole = << >> /\ frac = << >>
       THEN [nan |-> TRUE]
       ELSE [nan |-> FALSE, neg |-> signed /\ Head(t) = "-",
             m |-> NumberOf(whole \o frac), scale |-> Len(frac)]

\* x > n for a result x of parseFloat and an integer n >= 0
GreaterThan(x, n) ==
  ~x.nan /\ ~x.neg /\ x.m > n * Power10(x.scale)

\* x >= n for a result x of parseFloat and an integer n >= 0
GreaterOrEqual(x, n) ==
  ~x.nan /\ ~x.neg /\ x.m >= n * Power10(x.scale)

\* parseFloat(movieData.imdbRating || '0') >= 7.0
worthWatching(movieData) ==
  GreaterOrEqual(parseFloat(OrElse(Field(movieData, "imdbRating"), <<"0">>)), 7)

\* Array.prototype.join
RECURSIVE Join(_, _)
Join(parts, sep) ==
  IF parts = << >> THEN << >>
  ELSE IF Len(parts) = 1 THEN parts[1]
  ELSE parts[1] \o sep \o Join(Tail(parts), sep)

\* genreMovies of getSimilarMoviesByGenre, in the order of its keys
genreMovies ==
  \* line 2437: Action
  << [key |-> <<"A","c","t","i","o","n">>,
      movies |-> << <<"J","o","h","n"," ","W","i","c","k">>,
                    <<"M","a","d"," ","M","a","x",":"," ","F","u","r","y"," ","R","o","a","d">>,
                    <<"T","h","e"," ","D","a","r","k"," ","K","n","i","g","h","t">>,
                    <<"T","e","r","m","i","n","a","t","o","r"," ","2">> >>],
  \* line 2438: Drama
     [key |-> <<"D","r","a","m","a">>,
      movies |-> << <<"T","h","e"," ","S","h","a","w","s","h","a","n","k"," ","R","e","d","e","m","p","t","i","o","n">>,
                    <<"F","o","r","r","e","s","t"," ","G","u","m","p">>,
                    <<"G","o","o","d","f","e","l","l","a","s">>,
                    <<"C","a","s","a","b","l","a","n","c","a">> >>],
  \* line 2439: Comedy
     [key |-> <<"C","o","m","e","d","y">>,
      movies |-> << <<"T","h","e"," ","G","r","a","n","d"," ","B","u","d","a","p","e","s","t"," ","H","o","t","e","l">>,
                    <<"P","a","r","a","s","i","t","e">>,
                    <<"S","u","p","e","r","b","a","d">>,
                    <<"G","r","o","u","n","d","h","o","g"," ","D","a","y">> >>],
  \* line 2440: Thriller
     [key |-> <<"T","h","r","i","l","l","e","r">>,
      movies |-> << <<"G","o","n","e"," ","G","i","r","l">>,
                    <<"Z","o","d","i","a","c">>,
                    <<"S","e","7","e","n">>,
                    <<"T","h","e"," ","S","i","l","e","n","c","e"," ","o","f"," ","t","h","e"," ","L","a","m","b","s">> >>],
  \* line 2441: Horror
     [key |-> <<"H","o","r","r","o","r">>,
      movies |-> << <<"H","e","r","e","d","i","t","a","r","y">>,
                    <<"T","h","e"," ","C","o","n","j","u","r","i","n","g">>,
                    <<"G","e","t"," ","O","u","t">>,
                    <<"A"," ","Q","u","i","e","t"," ","P","l","a","c","e">> >>],
  \* line 2442: Sci-Fi
     [key |-> <<"S","c","i","-","F","i">>,
      movies |-> << <<"B","l","a","d","e"," ","R","u","n","n","e","r"," ","2","0","4","9">>,
                    <<"I","n","c","e","p","t","i","o","n">>,
                    <<"I","n","t","e","r","s","t","e","l","l","a","r">>,
                    <<"T","h","e"," ","M","a","t","r","i","x">> >>],
  \* line 2443: Fantasy
     [key |-> <<"F","a","n","t","a","s","y">>,
      movies |-> << <<"T","h","e"," ","L","o","r","d"," ","o","f"," ","t","h","e"," ","R","i","n","g","s">>,
                    <<"P","a","n","'","s"," ","L","a","b","y","r","i","n","t","h">>,
                    <<"T","h","e"," ","S","h","a","p","e"," ","o","f"," ","W","a","t","e","r">>,
                    <<"B","i","g"," ","F","i","s","h">> >>],
  \* line 2444: Romance
     [key |-> <<"R","o","m","a","n","c","e">>,
      movies |-> << <<"B","e","f","o","r","e"," ","S","u","n","s","e","t">>,
                    <<"E","t","e","r","n","a","l"," ","S","u","n","s","h","i","n","e">>,
                    <<"H","e","r">>,
                    <<"L","a"," ","L","a"," ","L","a","n","d">> >>],
  \* line 2445: Crime
     [key |-> <<"C","r","i","m","e">>,
      movies |-> << <<"P","u","l","p"," ","F","i","c","t","i","o","n">>,
                    <<"T","h","e"," ","G","o","d","f","a","t","h","e","r">>,
                    <<"F","a","r","g","o">>,
                    <<"N","o"," ","C","o","u","n","t","r","y"," ","f","o","r"," ","O","l","d"," ","M","e","n">> >>],
  \* line 2446: Animation
     [key |-> <<"A","n","i","m","a","t","i","o","n">>,
      movies |-> << <<"S","p","i","d","e","r","-","M","a","n",":"," ","I","n","t","o"," ","t","h","e"," ","S","p","i","d","e","r","-","V","e","r","s","e">>,
                    <<"W","A","L","L","-","E">>,
                    <<"Y","o","u","r"," ","N","a","m","e">>,
                    <<"S","p","i","r","i","t","e","d"," ","A","w","a","y">> >>],
  \* line 2447: Adventure
     [key |-> <<"A","d","v","e","n","t","u","r","e">>,
      movies |-> << <<"I","n","d","i","a","n","a"," ","J","o","n","e","s">>,
                    <<"J","u","r","a","s","s","i","c"," ","P","a","r","k">>,
                    <<"P","i","r","a","t","e","s"," ","o","f"," ","t","h","e"," ","C","a","r","i","b","b","e","a","n">>,
                    <<"G","u","a","r","d","i","a","n","s"," ","o","f"," ","t","h","e"," ","G","a","l","a","x","y">> >>],
  \* line 2448: War
     [key |-> <<"W","a","r">>,
      movies |-> << <<"S","a","v","i","n","g"," ","P","r","i","v","a","t","e"," ","R","y","a","n">>,
                    <<"A","p","o","c","a","l","y","p","s","e"," ","N","o","w">>,
                    <<"D","u","n","k","i","r","k">>,
                    <<"1","9","1","7">> >>],
  \* line 2449: Documentary
     [key |-> <<"D","o","c","u","m","e","n","t","a","r","y">>,
      movies |-> << <<"F","r","e","e"," ","S","o","l","o">>,
                    <<"W","o","n","'","t"," ","Y","o","u"," ","B","e"," ","M","y"," ","N","e","i","g","h","b","o","r","?">>,
                    <<"T","h","e"," ","A","c","t"," ","o","f"," ","K","i","l","l","i","n","g">>,
                    <<"M","a","r","c","h"," ","o","f"," ","t","h","e"," ","P","e","n","g","u","i","n","s">> >>],
  \* line 2450: Biography
     [key |-> <<"B","i","o","g","r","a","p","h","y">>,
      movies |-> << <<"T","h","e"," ","S","o","c","i","a","l"," ","N","e","t","w","o","r","k">>,
                    <<"S","t","e","v","e"," ","J","o","b","s">>,
                    <<"M","a","l","c","o","l","m"," ","X">>,
                    <<"G","a","n","d","h","i">> >>],
  \* line 2451: Mystery
     [key |-> <<"M","y","s","t","e","r","y">>,
      movies |-> << <<"K","n","i","v","e","s"," ","O","u","t">>,
                    <<"T","h","e"," ","P","r","e","s","t","i","g","e">>,
                    <<"S","h","u","t","t","e","r"," ","I","s","l","a","n","d">>,
                    <<"P","r","i","s","o","n","e","r","s">> >>] >>

\* the popular movies getSimilarMoviesByGenre falls back to
popularMovies ==
  << <<"T","h","e"," ","D","a","r","k"," ","K","n","i","g","h","t">>,
     <<"I","n","c","e","p","t","i","o","n">>,
     <<"P","u","l","p"," ","F","i","c","t","i","o","n">> >>

\* getSimilarMoviesByGenre without the table: the default titles always
DefaultMoviesOnly(genre, order) == popularMovies

\* getSimilarMoviesByGenre: order is the outcome of the random shuffle of
\* the four movies of the genre, a permutation of 1..4
getSimilarMoviesByGenre(genre, order) ==
  LET lowerGenre == toLowerCase(genre)
      hits == {k \in DOMAIN genreMovies :
                 \/ includes(lowerGenre, toLowerCase(genreMovies[k].key))
                 \/ includes(toLowerCase(genreMovies[k].key), lowerGenre)}
  IN IF hits # {}
       THEN LET movies == genreMovies[Min(hits)].movies
            IN <<movies[order[1]], movies[order[2]], movies[order[3]]>>
       ELSE popularMovies

\* the outcomes of the shuffle
Shuffles ==
  {p \in [1..4 -> 1..4] : \A i, j \in 1..4 : i # j => p[i] # p[j]}

\* String.prototype.lastIndexOf for one character, 1-based; 0 when absent
LastIndexOf(s, c) ==
  IF \E i \in DOMAIN s : s[i] = c
    THEN Max({i \in DOMAIN s : s[i] = c}) ELSE 0

\* a truncation that never looks for the end of a sentence
HardTruncate(text) ==
  IF Len(text) > 600
    THEN SubSeq(text, 1, 600 - 3) \o <<".",".",".">>
    ELSE text

\* the truncation of the model's text to MAX_RECOMMENDATION_LENGTH
TruncateRecommendation(text) ==
  IF Len(text) > 600
    THEN LET truncated == SubSeq(text, 1, 600)
             lastSentence == LastIndexOf(truncated, ".") - 1
         IN IF lastSentence > 200
              THEN SubSeq(truncated, 1, lastSentence + 1)
              ELSE SubSeq(truncated, 1, 600 - 3) \o <<".",".",".">>
    ELSE text

\* the text of the fallback recommendation
FallbackText(movieData, order) ==
  LET worth == worthWatching(movieData)
      similarMovies ==
        getSimilarMoviesByGenre(OrElse(movieData.genre, <<"D","r","a","m","a">>), order)
      quality == IF worth
                   THEN <<"W","o","r","t","h"," ","w","a","t","c","h","i","n","g"," ","w","i","t","h"," ","s","o","l","i","d"," ","r","a","t","i","n","g","s"," ","a","n","d"," ","e","n","g","a","g","i","n","g"," ","c","o","n","t","e","n","t",".">>
                   ELSE <<"C","o","n","s","i","d","e","r"," ","c","a","r","e","f","u","l","l","y"," ","a","s"," ","r","a","t","i","n","g","s"," ","s","u","g","g","e","s","t"," ","m","i","x","e","d"," ","r","e","c","e","p","t","i","o","n",".">>
      seeking == IF worth THEN <<"q","u","a","l","i","t","y"," ","e","n","t","e","r","t","a","i","n","m","e","n","t">>
                          ELSE <<"a","l","t","e","r","n","a","t","i","v","e"," ","v","i","e","w","i","n","g">>
  IN <<"\"">> \o movieData.title \o <<"\""," ","(">> \o movieData.year
     \o <<")"," ","-"," ">> \o quality
     \o <<" ","A","p","p","e","a","l","s"," ","t","o"," ","f","a","n","s"," ","o","f"," ">> \o movieData.genre
     \o <<" ","c","i","n","e","m","a"," ","a","n","d"," ","t","h","o","s","e"," ","s","e","e","k","i","n","g"," ">> \o seeking
     \o <<"."," ","S","i","m","i","l","a","r"," ","m","o","v","i","e","s",":"," ">>
     \o Join(SubSeq(similarMovies, 1, 3), <<","," ">>) \o <<".">>

\* generateRecommendation.  llm is the outcome of the call of the
\* recommendation model: it throws, or it answers with a text and a token
\* count; llm.order is the outcome of the shuffle of the fallback; n
\* numbers the fresh id and the current time.
generateRecommendation(movieData, llm, n) ==
  IF ~llm.throws
    THEN [id |-> Uuid(n), movie_id |-> movieData.id,
          recommendation |-> TruncateRecommendation(trim(llm.text)),
          worth_watching |-> worthWatching(movieData),
          created_at |-> Timestamp(n), tokensUsed |-> llm.tokens]
    ELSE [id |-> Uuid(n), movie_id |-> movieData.id,
          recommendation |-> FallbackText(movieData, llm.order),
          worth_watching |-> worthWatching(movieData),
          created_at |-> Timestamp(n), tokensUsed |-> 0]

(***************************************************************************)
(* generateRecommendation applied to movies of every rating.               *)
(***************************************************************************)
RatingMaxTenths == 100

\* n tenths written with one decimal, as the catalog writes a rating
OneDecimal(n) == Decimal(n \div 10) \o <<".">> \o Decimal(n % 10)

\* a rating text with the number of tenths it stands for; -1 for a rating
\* that is missing or not a number
RatingInputs ==
  {[text |-> OneDecimal(n), tenths |-> n] : n \in 0..RatingMaxTenths}
  \cup {[text |-> Decimal(n), tenths |-> 10 * n] :
          n \in 0..(RatingMaxTenths \div 10)}
  \cup {[text |-> <<"N","/","A">>, tenths |-> -1],
        [text |-> <<"N","o","t"," ","R","a","t","e","d">>, tenths |-> -1],
        [text |-> NULL, tenths |-> -1]}

\* what the recommendation model may do: answer or fail
RecommendationOutcomes ==
  {[throws |-> FALSE, tokens |-> 40, order |-> [i \in 1..4 |-> i],
    text |-> <<"A"," ","f","i","n","e"," ","f","i","l","m",".">>]}
  \cup {[throws |-> TRUE, tokens |-> 0, order |-> p, text |-> NULL] :
          p \in Shuffles}

InitWorth ==
  /\ InitMemory
  /\ InitPipeline
  /\ \E r \in RatingInputs :
       call = [movieData |-> [normalizeMovieData(OMDB[1], 0)
                                EXCEPT !.imdbRating = r.text],
               tenths |-> r.tenths]
  /\ ret = NULL

\* generateRecommendation(movieData, conversationId)
GenerateRecommendation ==
  /\ ret = NULL
  /\ \E llm \in RecommendationOutcomes :
       ret' = [threw |-> llm.throws,
               recommendation |->
                 generateRecommendation(call.movieData, llm, 1)]
  /\ UNCHANGED <<call, memVars, pipeVars>>

NextWorth == GenerateRecommendation
SpecWorth == InitWorth /\ [][NextWorth]_vars

\* C3: every recommendation generateRecommendation returns, on the model
\* path and on the fallback path, has worth_watching true exactly when the
\* rating is a number of at least 7.0; 8.5 gives true, 6.9 gives false, a
\* missing or non-numeric rating gives false.
C3_WorthWatchingThreshold ==
  ret # NULL =>
    /\ ret.recommendation.worth_watching = (call.tenths >= 70)
    /\ call.movieData.imdbRating = <<"8",".","5">>
         => ret.recommendation.worth_watching
    /\ call.movieData.imdbRating = <<"6",".","9">>
         => ~ret.recommendation.worth_watching
    /\ call.movieData.imdbRating \in {NULL, <<"N","/","A">>}
         => ~ret.recommendation.worth_watching

\* the fallback path has rated a movie of exactly 7.0 as worth watching
C3_Witness ==
  /\ ret # NULL
  /\ ret.threw
  /\ call.tenths = 70
  /\ ret.recommendation.worth_watching

(***************************************************************************)
(* The classification step of processQuery applied to a set of queries.    *)
(***************************************************************************)
ClassifierWords ==
  << <<"w","h","i","c","h">>,
     <<"i","s">>,
     <<"b","e","t","t","e","r">>,
     <<"o","r">>,
     <<"B","a","t","m","a","n">>,
     <<"S","u","p","e","r","m","a","n">>,
     <<"y","e","s">>,
     <<"n","o">>,
     <<"y","e","a","h">>,
     <<"y","e","p">>,
     <<"s","u","r","e">>,
     <<"n","o","p","e">> >>

MaxQueryWords == 3

\* the queries of up to MaxQueryWords words of ClassifierWords
WordQueries ==
  {Join(ws, <<" ">>) :
     ws \in UNION {[1..n -> RangeOf(ClassifierWords)] : n \in 1..MaxQueryWords}}

\* further queries: comparisons, greetings, titles
FixedQueries ==
  { <<"w","h","i","c","h"," ","o","n","e"," ","i","s"," ","b","e","t","t","e","r">>,
    <<"B","a","t","m","a","n"," ","o","r"," ","S","u","p","e","r","m","a","n">>,
    <<"B","a","t","m","a","n"," ","o","r"," ","S","u","p","e","r","m","a","n","?">>,
    <<"F","o","r","r","e","s","t"," ","G","u","m","p"," ","o","r"," ","T","h","e"," ","P","i","a","n","i","s","t">>,
    <<"c","o","m","p","a","r","e"," ","t","h","e","m">>,
    <<"B","a","t","m","a","n"," ","v","s"," ","S","u","p","e","r","m","a","n">>,
    <<"Y","e","s">>,
    <<"N","O">>,
    <<"h","e","l","l","o">>,
    <<"H","o","w"," ","i","s"," ","2","8"," ","D","a","y","s"," ","L","a","t","e","r">>,
    <<"r","e","c","o","m","m","e","n","d"," ","s","i","m","i","l","a","r">>,
    <<"W","o","n","d","e","r"," ","W","o","m","a","n">>,
    <<"w","h","a","t"," ","a","b","o","u","t"," ","B","a","t","m","a","n">>,
    <<"t","h","a","t"," ","o","n","e">>,
    <<"n","o","t"," ","r","e","a","l","l","y">>,
    <<"m","a","y","b","e">> }

ClassifierQueries == WordQueries \cup FixedQueries

\* the bare confirmations and refusals
BareTokens ==
  { <<"y","e","s">>,
    <<"y","e","a","h">>,
    <<"y","e","p">>,
    <<"s","u","r","e">>,
    <<"n","o">>,
    <<"n","o","p","e">> }

\* a conversation in which Wonder Woman was discussed in one turn
WonderWomanDiscussed ==
  saveAssistantMessage(
    saveUserMessage(NewConversation, OMDB[1].Title),
    MessageText(2), normalizeMovieData(OMDB[1], 1))

SampleConversations == {NewConversation, WonderWomanDiscussed}

InitClassify ==
  /\ InitMemory
  /\ InitPipeline
  /\ \E q \in ClassifierQueries, c \in SampleConversations :
       call = [query |-> q, conversation |-> c]
  /\ ret = NULL

\* step 3 of processQuery: detectGeneralConversation decides which handler
\* answers the query
Classify ==
  /\ ret = NULL
  /\ LET isGeneralConversation == detectGeneralConversation(call.query)
     IN ret' = [isGeneralConversation |-> isGeneralConversation,
                handler |-> IF isGeneralConversation
                              THEN "handleGeneralConversation"
                              ELSE "extractMovieTitles"]
  /\ UNCHANGED <<call, memVars, pipeVars>>

NextClassify == Classify
SpecClassify == InitClassify /\ [][NextClassify]_vars

\* C6: every query that matches a comparison pattern is classified
\* general, so that handleGeneralConversation answers it and
\* extractMovieTitles is not called for it.
C6_ComparisonIsGeneral ==
  (ret # NULL /\ isComparison(call.query)) =>
    /\ ret.isGeneralConversation
    /\ ret.handler = "handleGeneralConversation"

\* C7: each of the bare queries yes, yeah, yep, sure, no, nope is
\* classified general, whatever the conversation memory contains.
C7_BareTokensAreGeneral ==
  (ret # NULL /\ call.query \in BareTokens) => ret.isGeneralConversation

(***************************************************************************)
(* Title resolution: extractMovieTitles, handleContextualQueries and       *)
(* extractTitlesWithRegex.                                                  *)
(*                                                                         *)
(* RegExp matching with positions: the match the engine reports starts at  *)
(* the leftmost position that has a match and, from there, extends to the  *)
(* longest end.  The patterns this is applied to have greedy quantifiers   *)
(* only, or are anchored at the end of the text, so that the longest end   *)
(* is the one backtracking selects.                                        *)
(***************************************************************************)
\* RegExp.prototype.exec from position from: [index, end) of the match
exec(re, t, from) ==
  LET At(starts) ==
        IF starts = {} THEN NULL
        ELSE LET From(index) ==
                   [index |-> index, end |-> Max(Ends(re, t, {index}))]
             IN From(Min(starts))
  IN At({i \in from..(Len(t) + 1) : Ends(re, t, {i}) # {}})

\* the text a pattern is applied to, by its i flag
Folded(s, i) == IF i THEN toLowerCase(s) ELSE s

\* s.match(re)[0] for a pattern without the g flag; NULL when no match
matchFirst(s, re, i) ==
  LET Of(m) == IF m = NULL THEN NULL
               ELSE [text |-> SubSeq(s, m.index, m.end - 1)]
  IN Of(exec(re, Folded(s, i), 1))

\* s.match(re) for a pattern with the g flag: the matches, left to right
RECURSIVE MatchesFrom(_, _, _, _)
MatchesFrom(s, re, i, from) ==
  LET Of(m) ==
        IF m = NULL THEN << >>
        ELSE <<SubSeq(s, m.index, m.end - 1)>> \o
             MatchesFrom(s, re, i,
                         IF m.end = m.index THEN m.end + 1 ELSE m.end)
  IN Of(exec(re, Folded(s, i), from))
matchGlobal(s, re, i) == MatchesFrom(s, re, i, 1)

\* s.replace(re, by) for a pattern without the g flag
replaceFirst(s, re, i, by) ==
  LET Of(m) ==
        IF m = NULL THEN s
        ELSE SubSeq(s, 1, m.index - 1) \o by \o SubSeq(s, m.end, Len(s))
  IN Of(exec(re, Folded(s, i), 1))

\* s.replace(re, by) for a pattern with the g flag (no pattern it is used
\* with matches the empty text)
RECURSIVE ReplaceFrom(_, _, _, _, _)
ReplaceFrom(s, re, i, by, from) ==
  LET Of(m) ==
        IF m = NULL THEN SubSeq(s, from, Len(s))
        ELSE SubSeq(s, from, m.index - 1) \o by
               \o ReplaceFrom(s, re, i, by, m.end)
  IN Of(exec(re, Folded(s, i), from))
replaceGlobal(s, re, i, by) == ReplaceFrom(s, re, i, by, 1)

\* contextualPatterns (movie-butler-chain.ts lines 1123-1146), in order
contextualPatterns ==
  << [context |-> "direct_reference", patterns |-> <<<<"t","h","a","t"," ","m","o","v","i","e">>,
       <<"t","h","a","t"," ","f","i","l","m">>,
       <<"i","t">>,
       <<"t","h","i","s"," ","m","o","v","i","e">>,
       <<"t","h","i","s"," ","f","i","l","m">>>>],   \* line 1125
     [context |-> "sequel", patterns |-> <<<<"s","e","q","u","e","l">>,
       <<"i","t","s"," ","s","e","q","u","e","l">>,
       <<"t","h","e"," ","s","e","q","u","e","l">>,
       <<"f","o","l","l","o","w"," ","u","p">>,
       <<"n","e","x","t"," ","o","n","e">>,
       <<"p","a","r","t"," ","2">>,
       <<"p","a","r","t"," ","i","i">>,
       <<"p","a","r","t"," ","t","w","o">>,
       <<"s","e","c","o","n","d"," ","o","n","e">>,
       <<"s","e","c","o","n","d"," ","p","a","r","t">>,
       <<"i","t","'","s"," ","p","a","r","t"," ","t","w","o">>,
       <<"p","a","r","t"," ","t","w","o">>>>],   \* line 1127
     [context |-> "sequel_inquiry", patterns |-> <<<<"a","n","y"," ","s","e","q","u","e","l">>,
       <<"t","h","e","r","e"," ","a","n","y"," ","s","e","q","u","e","l">>,
       <<"a","r","e"," ","t","h","e","r","e"," ","s","e","q","u","e","l">>,
       <<"h","a","v","e"," ","s","e","q","u","e","l">>,
       <<"s","e","q","u","e","l","s"," ","e","x","i","s","t">>>>],   \* line 1129
     [context |-> "specific_movie_mention", patterns |-> <<<<"g","l","a","s","s"," ","o","n","i","o","n">>,
       <<"o","n","i","o","n"," ","g","l","a","s","s">>>>],   \* line 1131
     [context |-> "recommendation", patterns |-> <<<<"r","e","c","o","m","m","e","n","d","a","t","i","o","n">>,
       <<"r","e","c","o","m","m","e","n","d">>,
       <<"s","u","g","g","e","s","t">>,
       <<"s","i","m","i","l","a","r">>,
       <<"l","i","k","e"," ","t","h","a","t">>,
       <<"d","i","f","f","e","r","e","n","t">>,
       <<"a","n","o","t","h","e","r">>,
       <<"e","l","s","e">>>>],   \* line 1133
     [context |-> "clarification", patterns |-> <<<<"n","o">>,
       <<"n","o","t"," ","t","h","a","t">>,
       <<"w","r","o","n","g">>,
       <<"d","i","f","f","e","r","e","n","t">>,
       <<"k","o","r","e","a","n">>,
       <<"k","o","r","e","a","n"," ","m","o","v","i","e">>,
       <<"k","o","r","e","a","n"," ","v","e","r","s","i","o","n">>>>],   \* line 1135
     [context |-> "recent", patterns |-> <<<<"r","e","c","e","n","t">>,
       <<"l","a","t","e","s","t">>,
       <<"n","e","w","e","r">>,
       <<"n","e","w"," ","o","n","e">>,
       <<"n","e","w","e","s","t">>>>],   \* line 1137
     [context |-> "original", patterns |-> <<<<"o","r","i","g","i","n","a","l">>,
       <<"f","i","r","s","t">>,
       <<"o","l","d","e","r">>,
       <<"c","l","a","s","s","i","c">>>>],   \* line 1139
     [context |-> "year_specific", patterns |-> <<<<"2","0","2","3">>,
       <<"2","0","2","4">>,
       <<"2","0","2","5">>,
       <<"1","9","8","4">>>>],   \* line 1141
     [context |-> "country_specific", patterns |-> <<<<"k","o","r","e","a","n">>,
       <<"j","a","p","a","n","e","s","e">>,
       <<"f","r","e","n","c","h">>,
       <<"i","t","a","l","i","a","n">>,
       <<"s","p","a","n","i","s","h">>,
       <<"c","h","i","n","e","s","e">>>>],   \* line 1143
     [context |-> "comparison", patterns |-> <<<<"b","e","t","t","e","r">>,
       <<"w","h","i","c","h"," ","i","s"," ","b","e","t","t","e","r">>,
       <<"c","o","m","p","a","r","e">>,
       <<"v","s">>,
       <<"v","e","r","s","u","s">>>>] >>   \* line 1145

\* sequelMap (lines 1203-1227), in insertion order
sequelMap ==
  << [franchise |-> <<"w","o","n","d","e","r"," ","w","o","m","a","n">>,
      sequels |-> <<<<"W","o","n","d","e","r"," ","W","o","m","a","n"," ","1","9","8","4">>,
                    <<"W","o","n","d","e","r"," ","W","o","m","a","n",":"," ","1","9","8","4">>>>],   \* line 1204
     [franchise |-> <<"s","h","e","r","l","o","c","k"," ","h","o","l","m","e","s">>,
      sequels |-> <<<<"S","h","e","r","l","o","c","k"," ","H","o","l","m","e","s",":"," ","A"," ","G","a","m","e"," ","o","f"," ","S","h","a","d","o","w","s">>>>],   \* line 1205
     [franchise |-> <<"m","i","s","s","i","o","n"," ","i","m","p","o","s","s","i","b","l","e">>,
      sequels |-> <<<<"M","i","s","s","i","o","n",":"," ","I","m","p","o","s","s","i","b","l","e"," ","-"," ","D","e","a","d"," ","R","e","c","k","o","n","i","n","g"," ","P","a","r","t"," ","O","n","e">>,
                    <<"M","i","s","s","i","o","n",":"," ","I","m","p","o","s","s","i","b","l","e"," ","-"," ","F","a","l","l","o","u","t">>>>],   \* line 1206
     [franchise |-> <<"t","o","p"," ","g","u","n">>,
      sequels |-> <<<<"T","o","p"," ","G","u","n",":"," ","M","a","v","e","r","i","c","k">>>>],   \* line 1207
     [franchise |-> <<"a","v","a","t","a","r">>,
      sequels |-> <<<<"A","v","a","t","a","r",":"," ","T","h","e"," ","W","a","y"," ","o","f"," ","W","a","t","e","r">>>>],   \* line 1208
     [franchise |-> <<"b","a","t","m","a","n"," ","b","e","g","i","n","s">>,
      sequels |-> <<<<"T","h","e"," ","D","a","r","k"," ","K","n","i","g","h","t">>,
                    <<"T","h","e"," ","D","a","r","k"," ","K","n","i","g","h","t"," ","R","i","s","e","s">>>>],   \* line 1209
     [franchise |-> <<"t","h","e"," ","d","a","r","k"," ","k","n","i","g","h","t">>,
      sequels |-> <<<<"T","h","e"," ","D","a","r","k"," ","K","n","i","g","h","t"," ","R","i","s","e","s">>>>],   \* line 1210
     [franchise |-> <<"b","a","t","m","a","n">>,
      sequels |-> <<<<"B","a","t","m","a","n"," ","R","e","t","u","r","n","s">>,
                    <<"B","a","t","m","a","n"," ","F","o","r","e","v","e","r">>,
                    <<"T","h","e"," ","D","a","r","k"," ","K","n","i","g","h","t">>>>],   \* line 1211
     [franchise |-> <<"s","p","i","d","e","r","-","m","a","n">>,
      sequels |-> <<<<"S","p","i","d","e","r","-","M","a","n"," ","2">>,
                    <<"S","p","i","d","e","r","-","M","a","n"," ","3">>,
                    <<"S","p","i","d","e","r","-","M","a","n",":"," ","N","o"," ","W","a","y"," ","H","o","m","e">>>>],   \* line 1212
     [franchise |-> <<"i","r","o","n"," ","m","a","n">>,
      sequels |-> <<<<"I","r","o","n"," ","M","a","n"," ","2">>,
                    <<"I","r","o","n"," ","M","a","n"," ","3">>>>],   \* line 1213
     [franchise |-> <<"t","h","o","r">>,
      sequels |-> <<<<"T","h","o","r",":"," ","T","h","e"," ","D","a","r","k"," ","W","o","r","l","d">>,
                    <<"T","h","o","r",":"," ","R","a","g","n","a","r","o","k">>,
                    <<"T","h","o","r",":"," ","L","o","v","e"," ","a","n","d"," ","T","h","u","n","d","e","r">>>>],   \* line 1214
     [franchise |-> <<"c","a","p","t","a","i","n"," ","a","m","e","r","i","c","a">>,
      sequels |-> <<<<"C","a","p","t","a","i","n"," ","A","m","e","r","i","c","a",":"," ","T","h","e"," ","W","i","n","t","e","r"," ","S","o","l","d","i","e","r">>,
                    <<"C","a","p","t","a","i","n"," ","A","m","e","r","i","c","a",":"," ","C","i","v","i","l"," ","W","a","r">>>>],   \* line 1215
     [franchise |-> <<"g","u","a","r","d","i","a","n","s"," ","o","f"," ","t","h","e"," ","g","a","l","a","x","y">>,
      sequels |-> <<<<"G","u","a","r","d","i","a","n","s"," ","o","f"," ","t","h","e"," ","G","a","l","a","x","y"," ","V","o","l","."," ","2">>,
                    <<"G","u","a","r","d","i","a","n","s"," ","o","f"," ","t","h","e"," ","G","a","l","a","x","y"," ","V","o","l","."," ","3">>>>],   \* line 1216
     [franchise |-> <<"t","o","y"," ","s","t","o","r","y">>,
      sequels |-> <<<<"T","o","y"," ","S","t","o","r","y"," ","2">>,
                    <<"T","o","y"," ","S","t","o","r","y"," ","3">>,
                    <<"T","o","y"," ","S","t","o","r","y"," ","4">>>>],   \* line 1217
     [franchise |-> <<"j","o","h","n"," ","w","i","c","k">>,
      sequels |-> <<<<"J","o","h","n"," ","W","i","c","k",":"," ","C","h","a","p","t","e","r"," ","2">>,
                    <<"J","o","h","n"," ","W","i","c","k",":"," ","C","h","a","p","t","e","r"," ","3">>,
                    <<"J","o","h","n"," ","W","i","c","k",":"," ","C","h","a","p","t","e","r"," ","4">>>>],   \* line 1218
     [franchise |-> <<"f","a","s","t"," ","a","n","d"," ","f","u","r","i","o","u","s">>,
      sequels |-> <<<<"2"," ","F","a","s","t"," ","2"," ","F","u","r","i","o","u","s">>,
                    <<"F","a","s","t"," ","&"," ","F","u","r","i","o","u","s">>,
                    <<"F","a","s","t"," ","F","i","v","e">>,
                    <<"F","a","s","t"," ","X">>>>],   \* line 1219
     [franchise |-> <<"t","h","e"," ","m","a","t","r","i","x">>,
      sequels |-> <<<<"T","h","e"," ","M","a","t","r","i","x"," ","R","e","l","o","a","d","e","d">>,
                    <<"T","h","e"," ","M","a","t","r","i","x"," ","R","e","v","o","l","u","t","i","o","n","s">>,
                    <<"T","h","e"," ","M","a","t","r","i","x"," ","R","e","s","u","r","r","e","c","t","i","o","n","s">>>>],   \* line 1220
     [franchise |-> <<"t","e","r","m","i","n","a","t","o","r">>,
      sequels |-> <<<<"T","e","r","m","i","n","a","t","o","r"," ","2",":"," ","J","u","d","g","m","e","n","t"," ","D","a","y">>,
                    <<"T","e","r","m","i","n","a","t","o","r"," ","3",":"," ","R","i","s","e"," ","o","f"," ","t","h","e"," ","M","a","c","h","i","n","e","s">>>>],   \* line 1221
     [franchise |-> <<"a","l","i","e","n">>,
      sequels |-> <<<<"A","l","i","e","n","s">>,
                    <<"A","l","i","e","n"," ","3">>,
                    <<"A","l","i","e","n",":"," ","R","e","s","u","r","r","e","c","t","i","o","n">>>>],   \* line 1222
     [franchise |-> <<"s","t","a","r"," ","w","a","r","s">>,
      sequels |-> <<<<"T","h","e"," ","E","m","p","i","r","e"," ","S","t","r","i","k","e","s"," ","B","a","c","k">>,
                    <<"R","e","t","u","r","n"," ","o","f"," ","t","h","e"," ","J","e","d","i">>>>],   \* line 1223
     [franchise |-> <<"b","a","c","k"," ","t","o"," ","t","h","e"," ","f","u","t","u","r","e">>,
      sequels |-> <<<<"B","a","c","k"," ","t","o"," ","t","h","e"," ","F","u","t","u","r","e"," ","P","a","r","t"," ","I","I">>,
                    <<"B","a","c","k"," ","t","o"," ","t","h","e"," ","F","u","t","u","r","e"," ","P","a","r","t"," ","I","I","I">>>>],   \* line 1224
     [franchise |-> <<"t","h","e"," ","g","o","d","f","a","t","h","e","r">>,
      sequels |-> <<<<"T","h","e"," ","G","o","d","f","a","t","h","e","r"," ","P","a","r","t"," ","I","I">>,
                    <<"T","h","e"," ","G","o","d","f","a","t","h","e","r"," ","P","a","r","t"," ","I","I","I">>>>],   \* line 1225
     [franchise |-> <<"k","n","i","v","e","s"," ","o","u","t">>,
      sequels |-> <<<<"G","l","a","s","s"," ","O","n","i","o","n",":"," ","A"," ","K","n","i","v","e","s"," ","O","u","t"," ","M","y","s","t","e","r","y">>,
                    <<"G","l","a","s","s"," ","O","n","i","o","n">>>>] >>   \* line 1226

\* commonWords (lines 1480-1487)
commonWords ==
  {<<"t","h","e">>,
   <<"a">>,
   <<"a","n">>,
   <<"i","s">>,
   <<"a","r","e">>,
   <<"w","a","s">>,
   <<"w","e","r","e">>,
   <<"w","i","l","l">>,
   <<"w","o","u","l","d">>,
   <<"s","h","o","u","l","d">>,
   <<"c","o","u","l","d">>,
   <<"y","e","s">>,
   <<"n","o">>,
   <<"o","k">>,
   <<"o","k","a","y">>,
   <<"s","u","r","e">>,
   <<"y","e","a","h">>,
   <<"y","e","p">>,
   <<"n","o","p","e">>,
   <<"h","o","w">>,
   <<"w","h","a","t">>,
   <<"w","h","e","n">>,
   <<"w","h","e","r","e">>,
   <<"w","h","y">>,
   <<"w","h","o">>,
   <<"w","h","i","c","h">>,
   <<"s","e","q","u","e","l">>,
   <<"s","e","q","u","e","l","s">>,
   <<"r","e","c","o","m","m","e","n","d","a","t","i","o","n">>,
   <<"r","e","c","o","m","m","e","n","d">>,
   <<"s","u","g","g","e","s","t">>,
   <<"b","e","t","t","e","r">>,
   <<"g","o","o","d">>,
   <<"b","a","d">>,
   <<"g","r","e","a","t">>,
   <<"a","w","e","s","o","m","e">>,
   <<"t","e","r","r","i","b","l","e">>,
   <<"r","e","c","e","n","t">>,
   <<"l","a","t","e","s","t">>,
   <<"n","e","w">>,
   <<"o","l","d">>,
   <<"c","l","a","s","s","i","c">>,
   <<"m","o","d","e","r","n">>}

\* specificMentions (lines 1403-1409), in insertion order
specificMentions ==
  <<[mention |-> <<"g","l","a","s","s"," ","o","n","i","o","n">>, title |-> <<"G","l","a","s","s"," ","O","n","i","o","n">>],
    [mention |-> <<"o","n","i","o","n"," ","g","l","a","s","s">>, title |-> <<"G","l","a","s","s"," ","O","n","i","o","n">>],
    [mention |-> <<"p","a","r","t"," ","t","w","o">>, title |-> <<"p","a","r","t"," ","t","w","o">>],
    [mention |-> <<"p","a","r","t"," ","2">>, title |-> <<"p","a","r","t"," ","2">>],
    [mention |-> <<"p","a","r","t"," ","i","i">>, title |-> <<"p","a","r","t"," ","i","i">>]>>

\* line 993: /^(ace|mean\s+girls|[a-zA-Z][a-zA-Z\s:'-]*)\s+(19\d{2}|20\d{2}|with\s+[a-zA-Z\s]+)$/i
directMovieWithSpecifics ==
  Sq(<<BOL, Alt(<<L(<<"a","c","e">>), Sq(<<L(<<"m","e","a","n">>), Plus(C(SpaceCh)), L(<<"g","i","r","l","s">>)>>), Sq(<<C(LowerCh), Star(C(LowerCh \cup SpaceCh \cup {":","'","-"}))>>)>>), Plus(C(SpaceCh)), Alt(<<Sq(<<L(<<"1","9">>), Rep(C(DigitCh), 2)>>), Sq(<<L(<<"2","0">>), Rep(C(DigitCh), 2)>>), Sq(<<L(<<"w","i","t","h">>), Plus(C(SpaceCh)), Plus(C(LowerCh \cup SpaceCh))>>)>>), EOL>>)

\* line 1098: /([a-zA-Z][a-zA-Z\s:'-]+(?:\s+\d{4}|\s+1984|\s+returns|\s+rises|\s+begins))/i
directMoviePattern ==
  Sq(<<C(LowerCh), Plus(C(LowerCh \cup SpaceCh \cup {":","'","-"})), Alt(<<Sq(<<Plus(C(SpaceCh)), Rep(C(DigitCh), 4)>>), Sq(<<Plus(C(SpaceCh)), L(<<"1","9","8","4">>)>>), Sq(<<Plus(C(SpaceCh)), L(<<"r","e","t","u","r","n","s">>)>>), Sq(<<Plus(C(SpaceCh)), L(<<"r","i","s","e","s">>)>>), Sq(<<Plus(C(SpaceCh)), L(<<"b","e","g","i","n","s">>)>>)>>)>>)

\* line 1116: /\s*\(\d{4}\)/
YearInParens ==
  Sq(<<Star(C(SpaceCh)), L(<<"(">>), Rep(C(DigitCh), 4), L(<<")">>)>>)

\* line 1117: /:\s*.+$/
AfterColon ==
  Sq(<<L(<<":">>), Star(C(SpaceCh)), Plus(ANY), EOL>>)

\* line 1118: /\s*-\s*.+$/
AfterDash ==
  Sq(<<Star(C(SpaceCh)), L(<<"-">>), Star(C(SpaceCh)), Plus(ANY), EOL>>)

\* line 1119: /\s*part\s+\d+/i
PartNumber ==
  Sq(<<Star(C(SpaceCh)), L(<<"p","a","r","t">>), Plus(C(SpaceCh)), Plus(C(DigitCh))>>)

\* line 1120: /\s*\d+$/
TrailingNumber ==
  Sq(<<Star(C(SpaceCh)), Plus(C(DigitCh)), EOL>>)

\* line 1265: /(\d{4})/
FourDigits ==
  Rep(C(DigitCh), 4)

\* line 1360: /\b(19\d{2}|20\d{2})\b/
YearWord ==
  Sq(<<WB, Alt(<<Sq(<<L(<<"1","9">>), Rep(C(DigitCh), 2)>>), Sq(<<L(<<"2","0">>), Rep(C(DigitCh), 2)>>)>>), WB>>)

\* line 1447: /\b(movie|film)\b/i  (g flag)
MovieOrFilm ==
  Sq(<<WB, Alt(<<L(<<"m","o","v","i","e">>), L(<<"f","i","l","m">>)>>), WB>>)

\* line 1446: /["""]/  (g flag)
DoubleQuote ==
  C({"\""})


\* directPatterns (movie-butler-chain.ts lines 1381-1388)
directPatterns ==
  \* line 1383: /^([a-zA-Z][a-zA-Z\s:'-]*?)\s+(19\d{2}|20\d{2})$/i
  << Sq(<<BOL, Sq(<<C(LowerCh), StarLazy(C(LowerCh \cup SpaceCh \cup {":","'","-"}))>>), Plus(C(SpaceCh)), Alt(<<Sq(<<L(<<"1","9">>), Rep(C(DigitCh), 2)>>), Sq(<<L(<<"2","0">>), Rep(C(DigitCh), 2)>>)>>), EOL>>),
  \* line 1385: /^([a-zA-Z][a-zA-Z\s:'-]*?)\s+with\s+([a-zA-Z\s]+)$/i
     Sq(<<BOL, Sq(<<C(LowerCh), StarLazy(C(LowerCh \cup SpaceCh \cup {":","'","-"}))>>), Plus(C(SpaceCh)), L(<<"w","i","t","h">>), Plus(C(SpaceCh)), Plus(C(LowerCh \cup SpaceCh)), EOL>>),
  \* line 1387: /^([a-zA-Z][a-zA-Z\s:'-]*?)\s+(19\d{2}|20\d{2})\s+with\s+([a-zA-Z\s]+)$/i
     Sq(<<BOL, Sq(<<C(LowerCh), StarLazy(C(LowerCh \cup SpaceCh \cup {":","'","-"}))>>), Plus(C(SpaceCh)), Alt(<<Sq(<<L(<<"1","9">>), Rep(C(DigitCh), 2)>>), Sq(<<L(<<"2","0">>), Rep(C(DigitCh), 2)>>)>>), Plus(C(SpaceCh)), L(<<"w","i","t","h">>), Plus(C(SpaceCh)), Plus(C(LowerCh \cup SpaceCh)), EOL>>) >>

\* specificPatterns (movie-butler-chain.ts lines 1424-1439); every pattern
\* has the g flag, i tells whether it has the i flag
specificPatterns ==
  \* line 1426: /^(?:how\s+is|how\s+was|how's|hows)\s+([a-zA-Z0-9\s&:'-]+?)(?:\s*\??)$/gi
  << [i |-> TRUE, re |-> Sq(<<BOL, Alt(<<Sq(<<L(<<"h","o","w">>), Plus(C(SpaceCh)), L(<<"i","s">>)>>), Sq(<<L(<<"h","o","w">>), Plus(C(SpaceCh)), L(<<"w","a","s">>)>>), L(<<"h","o","w","'","s">>), L(<<"h","o","w","s">>)>>), Plus(C(SpaceCh)), PlusLazy(C(LowerCh \cup DigitCh \cup SpaceCh \cup {"&",":","'","-"})), Sq(<<Star(C(SpaceCh)), Opt(L(<<"?">>))>>), EOL>>)],
  \* line 1428: /^(?:give\s+recommendation\s+for|recommend|review)\s+([a-zA-Z0-9\s&:'-]+?)(?:\s*\??)$/gi
     [i |-> TRUE, re |-> Sq(<<BOL, Alt(<<Sq(<<L(<<"g","i","v","e">>), Plus(C(SpaceCh)), L(<<"r","e","c","o","m","m","e","n","d","a","t","i","o","n">>), Plus(C(SpaceCh)), L(<<"f","o","r">>)>>), L(<<"r","e","c","o","m","m","e","n","d">>), L(<<"r","e","v","i","e","w">>)>>), Plus(C(SpaceCh)), PlusLazy(C(LowerCh \cup DigitCh \cup SpaceCh \cup {"&",":","'","-"})), Sq(<<Star(C(SpaceCh)), Opt(L(<<"?">>))>>), EOL>>)],
  \* line 1430: /^(?:what\s+about|tell\s+me\s+about|about)\s+([a-zA-Z0-9\s&:'-]+?)(?:\s*\??)$/gi
     [i |-> TRUE, re |-> Sq(<<BOL, Alt(<<Sq(<<L(<<"w","h","a","t">>), Plus(C(SpaceCh)), L(<<"a","b","o","u","t">>)>>), Sq(<<L(<<"t","e","l","l">>), Plus(C(SpaceCh)), L(<<"m","e">>), Plus(C(SpaceCh)), L(<<"a","b","o","u","t">>)>>), L(<<"a","b","o","u","t">>)>>), Plus(C(SpaceCh)), PlusLazy(C(LowerCh \cup DigitCh \cup SpaceCh \cup {"&",":","'","-"})), Sq(<<Star(C(SpaceCh)), Opt(L(<<"?">>))>>), EOL>>)],
  \* line 1432: /\b([A-Z][a-zA-Z\s&:'-]*(?:\s+1984|\s+19\d{2}|\s+20\d{2}))\b/g
     [i |-> FALSE, re |-> Sq(<<WB, Sq(<<C(UpperCh), Star(C(LowerCh \cup UpperCh \cup SpaceCh \cup {"&",":","'","-"})), Alt(<<Sq(<<Plus(C(SpaceCh)), L(<<"1","9","8","4">>)>>), Sq(<<Plus(C(SpaceCh)), L(<<"1","9">>), Rep(C(DigitCh), 2)>>), Sq(<<Plus(C(SpaceCh)), L(<<"2","0">>), Rep(C(DigitCh), 2)>>)>>)>>), WB>>)],
  \* line 1434: /(?:movie|film)\s+["""]([^"""]+)["""]/gi
     [i |-> TRUE, re |-> Sq(<<Alt(<<L(<<"m","o","v","i","e">>), L(<<"f","i","l","m">>)>>), Plus(C(SpaceCh)), C({"\""}), Plus(C(Char \ ({"\""}))), C({"\""})>>)],
  \* line 1435: /["""]([^"""]+)["""](?:\s+(?:movie|film))?/gi
     [i |-> TRUE, re |-> Sq(<<C({"\""}), Plus(C(Char \ ({"\""}))), C({"\""}), Opt(Sq(<<Plus(C(SpaceCh)), Alt(<<L(<<"m","o","v","i","e">>), L(<<"f","i","l","m">>)>>)>>))>>)],
  \* line 1437: /([a-zA-Z\s]+)\s+(korean|japanese|chinese|french|italian|spanish)\s*(?:movie|film)?/gi
     [i |-> TRUE, re |-> Sq(<<Plus(C(LowerCh \cup SpaceCh)), Plus(C(SpaceCh)), Alt(<<L(<<"k","o","r","e","a","n">>), L(<<"j","a","p","a","n","e","s","e">>), L(<<"c","h","i","n","e","s","e">>), L(<<"f","r","e","n","c","h">>), L(<<"i","t","a","l","i","a","n">>), L(<<"s","p","a","n","i","s","h">>)>>), Star(C(SpaceCh)), Opt(Alt(<<L(<<"m","o","v","i","e">>), L(<<"f","i","l","m">>)>>))>>)],
  \* line 1438: /(korean|japanese|chinese|french|italian|spanish)\s+([a-zA-Z\s]+)(?:\s+movie|\s+film)?/gi
     [i |-> TRUE, re |-> Sq(<<Alt(<<L(<<"k","o","r","e","a","n">>), L(<<"j","a","p","a","n","e","s","e">>), L(<<"c","h","i","n","e","s","e">>), L(<<"f","r","e","n","c","h">>), L(<<"i","t","a","l","i","a","n">>), L(<<"s","p","a","n","i","s","h">>)>>), Plus(C(SpaceCh)), Plus(C(LowerCh \cup SpaceCh)), Opt(Alt(<<Sq(<<Plus(C(SpaceCh)), L(<<"m","o","v","i","e">>)>>), Sq(<<Plus(C(SpaceCh)), L(<<"f","i","l","m">>)>>)>>))>>)] >>

\* getBaseTitle (lines 1114-1122)
getBaseTitle(title) ==
  trim(replaceFirst(
         replaceFirst(
           replaceFirst(
             replaceFirst(
               replaceFirst(title, YearInParens, FALSE, << >>),
               AfterColon, FALSE, << >>),
             AfterDash, FALSE, << >>),
           PartNumber, TRUE, << >>),
         TrailingNumber, FALSE, << >>))

s_different == <<"d","i","f","f","e","r","e","n","t">>
s_another == <<"a","n","o","t","h","e","r">>
s_else == <<"e","l","s","e">>
s_sequel == <<"s","e","q","u","e","l">>
s_1984 == <<"1","9","8","4">>
s_korean == <<"k","o","r","e","a","n">>
s_glass_onion == <<"g","l","a","s","s"," ","o","n","i","o","n">>
s_onion_glass == <<"o","n","i","o","n"," ","g","l","a","s","s">>
GlassOnion == <<"G","l","a","s","s"," ","O","n","i","o","n">>

\* patterns.some(pattern => lowerQuery.includes(pattern))
SomeIncluded(patterns, lowerQuery) ==
  \E p \in DOMAIN patterns : includes(lowerQuery, patterns[p])

\* the sequel branch of handleContextualQueries (lines 1201-1309)
SequelOf(baseTitle, lastMovie, previousMovies) ==
  LET baseLower == toLowerCase(baseTitle)
      \* line 1234
      hits == {f \in DOMAIN sequelMap :
                 \/ baseLower = sequelMap[f].franchise
                 \/ includes(baseLower, sequelMap[f].franchise)
                 \/ includes(sequelMap[f].franchise, baseLower)}
  IN IF hits = {}
       THEN baseTitle \o <<" ", "2">>          \* universalSequelPatterns[0]
       ELSE
         LET sequels == sequelMap[Min(hits)].sequels
             \* lines 1236-1239
             undiscussed ==
               {q \in DOMAIN sequels :
                  /\ ~\E p \in DOMAIN previousMovies :
                        toLowerCase(previousMovies[p].title)
                          = toLowerCase(sequels[q])
                  /\ toLowerCase(lastMovie.title) # toLowerCase(sequels[q])}
         IN IF undiscussed = {} THEN sequels[1]
            ELSE sequels[Min(undiscussed)]

\* the loop over contextualPatterns (lines 1165-1373) from group n on: a
\* group whose branch does not return lets the loop go on to the next one
RECURSIVE ContextualLoop(_, _, _, _, _)
ContextualLoop(n, query, lowerQuery, lastMovie, previousMovies) ==
  IF n > Len(contextualPatterns) THEN NULL
  ELSE
    LET Group(patterns, context, baseTitle, next) ==
         IF ~SomeIncluded(patterns, lowerQuery) THEN next
         ELSE
         CASE context = "specific_movie_mention" ->
                IF \/ includes(lowerQuery, s_glass_onion)
                   \/ includes(lowerQuery, s_onion_glass)
                  THEN GlassOnion ELSE NULL
           [] context = "direct_reference" -> lastMovie.title
           [] context \in {"recommendation", "comparison"} -> NULL
           [] context \in {"sequel", "sequel_inquiry"} ->
                SequelOf(baseTitle, lastMovie, previousMovies)
           [] context = "clarification" ->
                IF includes(lowerQuery, s_korean)
                  THEN baseTitle \o <<" ","K","o","r","e","a","n">>
                ELSE IF \/ includes(lowerQuery, s_different)
                        \/ includes(lowerQuery, s_another)
                  THEN NULL
                ELSE baseTitle
           [] context = "country_specific" ->
                LET c == Min({p \in DOMAIN patterns :
                                includes(lowerQuery, patterns[p])})
                IN baseTitle \o <<" ">> \o patterns[c]
           [] context = "recent" -> baseTitle
           [] context = "year_specific" ->
                LET Year(yearMatch) ==
                      IF yearMatch # NULL
                        THEN baseTitle \o <<" ">> \o yearMatch.text
                        ELSE next
                IN Year(matchFirst(query, YearWord, FALSE))
           [] OTHER -> next
    IN Group(contextualPatterns[n].patterns, contextualPatterns[n].context,
             getBaseTitle(lastMovie.title),
             ContextualLoop(n + 1, query, lowerQuery, lastMovie,
                            previousMovies))

\* handleContextualQueries (lines 1084-1377): a title, or NULL
handleContextualQueries(query, conversation) ==
  IF conversation = NULL \/ Len(conversation.discussedMovies) = 0 THEN NULL
  ELSE
    LET lowerQuery == trim(toLowerCase(query))
        lastMovie == Last(conversation.discussedMovies)
        previousMovies == SubSeq(conversation.discussedMovies, 1,
                                 Len(conversation.discussedMovies) - 1)
        movieTitleInQuery == toLowerCase(lastMovie.title)
        Handle(directMatch) ==
          IF /\ directMatch # NULL
             /\ Len(directMatch.text) > 3
             /\ toLowerCase(trim(directMatch.text))
                  # toLowerCase(lastMovie.title)
            THEN trim(directMatch.text)
          ELSE IF includes(lowerQuery, movieTitleInQuery)
            THEN IF \/ includes(lowerQuery, s_different)
                    \/ includes(lowerQuery, s_another)
                    \/ includes(lowerQuery, s_else)
                    \/ includes(lowerQuery, s_sequel)
                    \/ includes(lowerQuery, s_1984)
                   THEN NULL
                   ELSE lastMovie.title
          ELSE ContextualLoop(1, query, lowerQuery, lastMovie, previousMovies)
    IN Handle(matchFirst(query, directMoviePattern, TRUE))

\* isCommonWord (lines 1479-1490)
isCommonWord(word) == toLowerCase(word) \in commonWords

\* the clean-up of one match (lines 1444-1455)
CleanMatch(match) ==
  trim(replaceGlobal(trim(replaceGlobal(match, DoubleQuote, FALSE, << >>)),
                     MovieOrFilm, TRUE, << >>))

\* Array.prototype.filter on the cleaned matches (line 1456)
RECURSIVE KeepTitles(_)
KeepTitles(matches) ==
  IF matches = << >> THEN << >>
  ELSE LET Keep(title) ==
             IF Len(title) > 2 /\ ~isCommonWord(title) THEN <<title>>
                                                       ELSE << >>
       IN Keep(CleanMatch(Head(matches))) \o KeepTitles(Tail(matches))

\* the loop over specificPatterns (lines 1441-1463) from pattern n on
RECURSIVE SpecificLoop(_, _)
SpecificLoop(n, query) ==
  IF n > Len(specificPatterns) THEN << >>
  ELSE LET Found(titles) ==
             IF Len(titles) > 0 THEN titles ELSE SpecificLoop(n + 1, query)
       IN Found(KeepTitles(matchGlobal(query, specificPatterns[n].re,
                                       specificPatterns[n].i)))

\* extractTitlesWithRegex (lines 1377-1477): the titles, in order
extractTitlesWithRegex(query) ==
  LET queryLower == trim(toLowerCase(query))
      mentions == {m \in DOMAIN specificMentions :
                     includes(queryLower, specificMentions[m].mention)}
      Titles(specific, fallbackTitle) ==
        IF \E p \in DOMAIN directPatterns :
             TestI(directPatterns[p], trim(query))
          THEN <<trim(query)>>
        ELSE IF mentions # {} THEN <<specificMentions[Min(mentions)].title>>
        ELSE IF Len(specific) > 0 THEN specific
        ELSE IF isCommonWord(fallbackTitle) \/ Len(fallbackTitle) < 3
          THEN << >>
        ELSE <<fallbackTitle>>
  IN Titles(SpecificLoop(1, query),
            trim(replaceGlobal(trim(query), MovieOrFilm, TRUE, << >>)))

\* the answers of the title-extraction chain that are not titles
\* (lines 1036-1041)
ResponseTypes ==
  {<<"C","O","M","P","A","R","I","S","O","N","_","Q","U","E","S","T","I","O","N">>,
   <<"S","I","M","P","L","E","_","R","E","S","P","O","N","S","E">>,
   <<"P","R","E","F","E","R","E","N","C","E","_","Q","U","E","S","T","I","O","N">>,
   <<"G","E","N","E","R","A","L","_","R","E","C","O","M","M","E","N","D","A","T","I","O","N">>,
   <<"S","I","M","I","L","A","R","_","R","E","C","O","M","M","E","N","D","A","T","I","O","N">>,
   <<"F","O","L","L","O","W","_","U","P","_","Q","U","E","S","T","I","O","N">>}

NotAvailable == <<"N","/","A">>

\* where extractMovieTitles takes its titles from (the source it logs)
TitleSource(query, conversation, llm) ==
  IF TestI(directMovieWithSpecifics, trim(query)) THEN "direct_bypass"
  ELSE IF handleContextualQueries(query, conversation) # << >>
    THEN "contextual"
  ELSE IF ~llm.throws /\ trim(llm.text) \in ResponseTypes THEN "skip"
  ELSE IF ~llm.throws /\ trim(llm.text) # << >>
                      /\ trim(llm.text) # NotAvailable
    THEN "langchain"
  ELSE "regex"

\* extractMovieTitles (lines 989-1084); llm is the outcome of
\* titleExtractionChain.invoke: [throws, text, tokens]
extractMovieTitles(query, conversation, llm) ==
  LET From(source) ==
        CASE source = "direct_bypass" -> <<trim(query)>>
          [] source = "contextual" ->
               <<handleContextualQueries(query, conversation)>>
          [] source = "skip" -> << >>
          [] source = "langchain" -> <<trim(llm.text)>>
          [] source = "regex" -> extractTitlesWithRegex(query)
  IN From(TitleSource(query, conversation, llm))

\* conversation.totalTokens after extractMovieTitles (lines 1048-1052 and
\* 1064-1068)
TokensAfterExtraction(query, conversation, llm) ==
  IF TitleSource(query, conversation, llm) \in {"skip", "langchain"}
    THEN conversation.totalTokens + llm.tokens
    ELSE conversation.totalTokens

(***************************************************************************)
(* Title resolution applied to one query, one conversation memory and one  *)
(* outcome of the title-extraction chain.                                  *)
(***************************************************************************)
\* queries for title resolution
ResolveQueries ==
  { <<"s","e","q","u","e","l">>,
    <<"i","t","s"," ","s","e","q","u","e","l">>,
    <<"t","h","e"," ","s","e","q","u","e","l">>,
    <<"S","e","q","u","e","l","?">>,
    <<"w","h","a","t"," ","a","b","o","u","t"," ","t","h","e"," ","s","e","q","u","e","l">>,
    <<"i","s"," ","t","h","e","r","e"," ","a"," ","s","e","q","u","e","l">>,
    <<"a","n","y"," ","s","e","q","u","e","l">>,
    <<"w","o","n","d","e","r"," ","w","o","m","a","n"," ","s","e","q","u","e","l">>,
    <<"s","h","o","w"," ","m","e"," ","t","h","e"," ","s","e","q","u","e","l">>,
    <<"s","e","q","u","e","l","s">>,
    <<"a"," ","s","e","q","u","e","l"," ","m","a","y","b","e">>,
    <<"p","a","r","t"," ","2">>,
    <<"n","e","x","t"," ","o","n","e">>,
    <<"t","h","a","t"," ","m","o","v","i","e">>,
    <<"k","o","r","e","a","n"," ","v","e","r","s","i","o","n">>,
    <<"t","h","e"," ","l","a","t","e","s","t">>,
    <<"1","9","8","4">>,
    <<"t","h","e"," ","o","r","i","g","i","n","a","l"," ","o","n","e">>,
    <<"r","e","c","o","m","m","e","n","d"," ","s","i","m","i","l","a","r">>,
    <<"I","n","c","e","p","t","i","o","n">>,
    <<"H","o","w"," ","i","s"," ","2","8"," ","D","a","y","s"," ","L","a","t","e","r">>,
    <<"B","a","t","m","a","n"," ","1","9","8","9">>,
    <<"a"," ","d","i","f","f","e","r","e","n","t"," ","o","n","e">>,
    <<"f","r","e","n","c","h">> }

\* one turn about catalog entry m, as processQuery records it
Discuss(conversation, m, n) ==
  saveAssistantMessage(saveUserMessage(conversation, OMDB[m].Title),
                       MessageText(n), normalizeMovieData(OMDB[m], n))

\* conversation memories: the catalog entries discussed, oldest first
ResolveHistories ==
  { << >>, <<1>>, <<2, 1>>, <<4, 1>>, <<2>>, <<5>>, <<1, 3>> }

RECURSIVE ConversationOf(_)
ConversationOf(history) ==
  IF history = << >> THEN NewConversation
  ELSE Discuss(ConversationOf(SubSeq(history, 1, Len(history) - 1)),
               history[Len(history)], Len(history))

\* outcomes of titleExtractionChain.invoke
TitleOutcomes ==
  { [throws |-> TRUE, text |-> << >>, tokens |-> 0],
    [throws |-> FALSE, text |-> NotAvailable, tokens |-> 25],
    [throws |-> FALSE, text |-> << >>, tokens |-> 0],
    [throws |-> FALSE,
     text |-> <<"S","I","M","I","L","A","R","_","R","E","C","O","M","M","E","N","D","A","T","I","O","N">>,
     tokens |-> 25],
    [throws |-> FALSE, text |-> <<" ">> \o OMDB[2].Title \o <<" ">>,
     tokens |-> 25] }

InitResolve ==
  /\ InitMemory
  /\ InitPipeline
  /\ \E q \in ResolveQueries, h \in ResolveHistories, l \in TitleOutcomes :
       call = [query |-> q, conversation |-> ConversationOf(h), llm |-> l]
  /\ ret = NULL

\* extractMovieTitles applied to the input
ExtractMovieTitles ==
  /\ ret = NULL
  /\ ret' = [titles |-> extractMovieTitles(call.query, call.conversation,
                                           call.llm),
             source |-> TitleSource(call.query, call.conversation, call.llm),
             contextual |-> handleContextualQueries(call.query,
                                                    call.conversation),
             totalTokens |-> TokensAfterExtraction(call.query,
                                                    call.conversation,
                                                    call.llm)]
  /\ UNCHANGED <<call, memVars, pipeVars>>

NextResolve == ExtractMovieTitles
SpecResolve == InitResolve /\ [][NextResolve]_vars

\* the last discussed movie of a conversation memory is Wonder Woman
LastIsWonderWoman(conversation) ==
  /\ Len(conversation.discussedMovies) > 0
  /\ Last(conversation.discussedMovies).title = OMDB[1].Title

\* C8: for every query that contains 'sequel', when the last discussed
\* movie of the conversation memory is 'Wonder Woman', title resolution
\* returns exactly the one title 'Wonder Woman 1984'.
C8_SequelOfWonderWoman ==
  (/\ ret # NULL
   /\ includes(toLowerCase(call.query), s_sequel)
   /\ LastIsWonderWoman(call.conversation))
    => ret.titles = <<OMDB[2].Title>>

\* franchiseMap (lines 2017-2045), in insertion order
franchiseMap ==
  << [franchise |-> <<"w","o","n","d","e","r"," ","w","o","m","a","n">>,
      movies |-> <<<<"W","o","n","d","e","r"," ","W","o","m","a","n"," ","1","9","8","4">>,
                 <<"W","o","n","d","e","r"," ","W","o","m","a","n",":"," ","1","9","8","4">>>>],
     [franchise |-> <<"m","i","s","s","i","o","n"," ","i","m","p","o","s","s","i","b","l","e">>,
      movies |-> <<<<"M","i","s","s","i","o","n",":"," ","I","m","p","o","s","s","i","b","l","e"," ","-"," ","D","e","a","d"," ","R","e","c","k","o","n","i","n","g"," ","P","a","r","t"," ","O","n","e">>,
                 <<"M","i","s","s","i","o","n",":"," ","I","m","p","o","s","s","i","b","l","e"," ","-"," ","F","a","l","l","o","u","t">>,
                 <<"M","i","s","s","i","o","n",":"," ","I","m","p","o","s","s","i","b","l","e"," ","-"," ","R","o","g","u","e"," ","N","a","t","i","o","n">>>>],
     [franchise |-> <<"t","o","p"," ","g","u","n">>,
      movies |-> <<<<"T","o","p"," ","G","u","n",":"," ","M","a","v","e","r","i","c","k">>>>],
     [franchise |-> <<"b","a","t","m","a","n">>,
      movies |-> <<<<"T","h","e"," ","B","a","t","m","a","n">>,
                 <<"T","h","e"," ","D","a","r","k"," ","K","n","i","g","h","t"," ","R","i","s","e","s">>,
                 <<"B","a","t","m","a","n"," ","R","e","t","u","r","n","s">>>>],
     [franchise |-> <<"s","p","i","d","e","r","-","m","a","n">>,
      movies |-> <<<<"S","p","i","d","e","r","-","M","a","n",":"," ","N","o"," ","W","a","y"," ","H","o","m","e">>,
                 <<"S","p","i","d","e","r","-","M","a","n",":"," ","F","a","r"," ","F","r","o","m"," ","H","o","m","e">>,
                 <<"S","p","i","d","e","r","-","M","a","n"," ","2">>>>],
     [franchise |-> <<"f","a","s","t">>,
      movies |-> <<<<"F","a","s","t"," ","X">>,
                 <<"F","a","s","t"," ","&"," ","F","u","r","i","o","u","s"," ","P","r","e","s","e","n","t","s",":"," ","H","o","b","b","s"," ","&"," ","S","h","a","w">>>>],
     [franchise |-> <<"j","o","h","n"," ","w","i","c","k">>,
      movies |-> <<<<"J","o","h","n"," ","W","i","c","k",":"," ","C","h","a","p","t","e","r"," ","4">>,
                 <<"J","o","h","n"," ","W","i","c","k",":"," ","C","h","a","p","t","e","r"," ","3">>,
                 <<"J","o","h","n"," ","W","i","c","k",":"," ","C","h","a","p","t","e","r"," ","2">>>>],
     [franchise |-> <<"a","v","a","t","a","r">>,
      movies |-> <<<<"A","v","a","t","a","r",":"," ","T","h","e"," ","W","a","y"," ","o","f"," ","W","a","t","e","r">>>>],
     [franchise |-> <<"i","r","o","n"," ","m","a","n">>,
      movies |-> <<<<"I","r","o","n"," ","M","a","n"," ","2">>,
                 <<"I","r","o","n"," ","M","a","n"," ","3">>>>],
     [franchise |-> <<"t","h","o","r">>,
      movies |-> <<<<"T","h","o","r",":"," ","T","h","e"," ","D","a","r","k"," ","W","o","r","l","d">>,
                 <<"T","h","o","r",":"," ","R","a","g","n","a","r","o","k">>,
                 <<"T","h","o","r",":"," ","L","o","v","e"," ","a","n","d"," ","T","h","u","n","d","e","r">>>>],
     [franchise |-> <<"c","a","p","t","a","i","n"," ","a","m","e","r","i","c","a">>,
      movies |-> <<<<"C","a","p","t","a","i","n"," ","A","m","e","r","i","c","a",":"," ","T","h","e"," ","W","i","n","t","e","r"," ","S","o","l","d","i","e","r">>,
                 <<"C","a","p","t","a","i","n"," ","A","m","e","r","i","c","a",":"," ","C","i","v","i","l"," ","W","a","r">>>>],
     [franchise |-> <<"g","u","a","r","d","i","a","n","s"," ","o","f"," ","t","h","e"," ","g","a","l","a","x","y">>,
      movies |-> <<<<"G","u","a","r","d","i","a","n","s"," ","o","f"," ","t","h","e"," ","G","a","l","a","x","y"," ","V","o","l","."," ","2">>,
                 <<"G","u","a","r","d","i","a","n","s"," ","o","f"," ","t","h","e"," ","G","a","l","a","x","y"," ","V","o","l","."," ","3">>>>],
     [franchise |-> <<"t","o","y"," ","s","t","o","r","y">>,
      movies |-> <<<<"T","o","y"," ","S","t","o","r","y"," ","2">>,
                 <<"T","o","y"," ","S","t","o","r","y"," ","3">>,
                 <<"T","o","y"," ","S","t","o","r","y"," ","4">>>>],
     [franchise |-> <<"t","h","e"," ","m","a","t","r","i","x">>,
      movies |-> <<<<"T","h","e"," ","M","a","t","r","i","x"," ","R","e","l","o","a","d","e","d">>,
                 <<"T","h","e"," ","M","a","t","r","i","x"," ","R","e","v","o","l","u","t","i","o","n","s">>,
                 <<"T","h","e"," ","M","a","t","r","i","x"," ","R","e","s","u","r","r","e","c","t","i","o","n","s">>>>],
     [franchise |-> <<"t","e","r","m","i","n","a","t","o","r">>,
      movies |-> <<<<"T","e","r","m","i","n","a","t","o","r"," ","2",":"," ","J","u","d","g","m","e","n","t"," ","D","a","y">>,
                 <<"T","e","r","m","i","n","a","t","o","r"," ","3",":"," ","R","i","s","e"," ","o","f"," ","t","h","e"," ","M","a","c","h","i","n","e","s">>>>],
     [franchise |-> <<"a","l","i","e","n">>,
      movies |-> <<<<"A","l","i","e","n","s">>,
                 <<"A","l","i","e","n"," ","3">>,
                 <<"A","l","i","e","n",":"," ","R","e","s","u","r","r","e","c","t","i","o","n">>>>],
     [franchise |-> <<"s","t","a","r"," ","w","a","r","s">>,
      movies |-> <<<<"T","h","e"," ","E","m","p","i","r","e"," ","S","t","r","i","k","e","s"," ","B","a","c","k">>,
                 <<"R","e","t","u","r","n"," ","o","f"," ","t","h","e"," ","J","e","d","i">>>>],
     [franchise |-> <<"b","a","c","k"," ","t","o"," ","t","h","e"," ","f","u","t","u","r","e">>,
      movies |-> <<<<"B","a","c","k"," ","t","o"," ","t","h","e"," ","F","u","t","u","r","e"," ","P","a","r","t"," ","I","I">>,
                 <<"B","a","c","k"," ","t","o"," ","t","h","e"," ","F","u","t","u","r","e"," ","P","a","r","t"," ","I","I","I">>>>],
     [franchise |-> <<"t","h","e"," ","g","o","d","f","a","t","h","e","r">>,
      movies |-> <<<<"T","h","e"," ","G","o","d","f","a","t","h","e","r"," ","P","a","r","t"," ","I","I">>,
                 <<"T","h","e"," ","G","o","d","f","a","t","h","e","r"," ","P","a","r","t"," ","I","I","I">>>>],
     [franchise |-> <<"t","a","x","i"," ","d","r","i","v","e","r">>,
      movies |-> <<<<"T","a","x","i"," ","D","r","i","v","e","r">>,
                 <<"A"," ","T","a","x","i"," ","D","r","i","v","e","r">>>>] >>

\* specificMovieMappings (lines 2102-2112), in insertion order
specificMovieMappings ==
  << [key |-> <<"w","o","n","d","e","r"," ","w","o","m","a","n"," ","1","9","8","4">>,
      mappings |-> <<<<"W","o","n","d","e","r"," ","W","o","m","a","n"," ","1","9","8","4">>,
                 <<"W","o","n","d","e","r"," ","W","o","m","a","n",":"," ","1","9","8","4">>>>],
     [key |-> <<"t","o","p"," ","g","u","n"," ","m","a","v","e","r","i","c","k">>,
      mappings |-> <<<<"T","o","p"," ","G","u","n",":"," ","M","a","v","e","r","i","c","k">>>>],
     [key |-> <<"b","a","t","m","a","n"," ","b","e","g","i","n","s">>,
      mappings |-> <<<<"B","a","t","m","a","n"," ","B","e","g","i","n","s">>>>],
     [key |-> <<"t","h","e"," ","d","a","r","k"," ","k","n","i","g","h","t">>,
      mappings |-> <<<<"T","h","e"," ","D","a","r","k"," ","K","n","i","g","h","t">>>>],
     [key |-> <<"d","a","r","k"," ","k","n","i","g","h","t"," ","r","i","s","e","s">>,
      mappings |-> <<<<"T","h","e"," ","D","a","r","k"," ","K","n","i","g","h","t"," ","R","i","s","e","s">>>>],
     [key |-> <<"s","p","i","d","e","r","-","m","a","n"," ","n","o"," ","w","a","y"," ","h","o","m","e">>,
      mappings |-> <<<<"S","p","i","d","e","r","-","M","a","n",":"," ","N","o"," ","W","a","y"," ","H","o","m","e">>>>],
     [key |-> <<"m","i","s","s","i","o","n"," ","i","m","p","o","s","s","i","b","l","e"," ","f","a","l","l","o","u","t">>,
      mappings |-> <<<<"M","i","s","s","i","o","n",":"," ","I","m","p","o","s","s","i","b","l","e"," ","-"," ","F","a","l","l","o","u","t">>>>],
     [key |-> <<"j","o","h","n"," ","w","i","c","k"," ","4">>,
      mappings |-> <<<<"J","o","h","n"," ","W","i","c","k",":"," ","C","h","a","p","t","e","r"," ","4">>>>],
     [key |-> <<"a","v","a","t","a","r"," ","2">>,
      mappings |-> <<<<"A","v","a","t","a","r",":"," ","T","h","e"," ","W","a","y"," ","o","f"," ","W","a","t","e","r">>>>] >>

\* greetingPatterns (lines 2420-2425)
greetingPatterns ==
  {<<"h","i">>,
   <<"h","e","l","l","o">>,
   <<"h","e","y">>,
   <<"h","i"," ","t","h","e","r","e">>,
   <<"h","e","l","l","o"," ","t","h","e","r","e">>,
   <<"g","o","o","d"," ","m","o","r","n","i","n","g">>,
   <<"g","o","o","d"," ","a","f","t","e","r","n","o","o","n">>,
   <<"g","o","o","d"," ","e","v","e","n","i","n","g">>,
   <<"h","o","w"," ","a","r","e"," ","y","o","u">>,
   <<"w","h","a","t","s"," ","u","p">>,
   <<"w","h","a","t","'","s"," ","u","p">>,
   <<"s","u","p">>,
   <<"h","o","w"," ","i","s"," ","g","o","o","s","e","b","u","m","p","s">>,
   <<"h","o","w"," ","a","r","e"," ","g","o","o","s","e","b","u","m","p","s">>,
   <<"g","o","o","s","e","b","u","m","p","s">>}
(***************************************************************************)
(* The external catalog and searchOMDB.  The catalog answers a title       *)
(* fetch (?t=) with the entry that has that title, a keyword search (?s=)  *)
(* with the entries whose title contains the keyword, in catalog order,    *)
(* and a detail fetch (?i=) with the entry of that id.                     *)
(***************************************************************************)
\* parseInt of an unsigned text: NaN, or the number its leading digits write
parseInt(s) ==
  LET d == DigitPrefix(TrimLeft(s))
  IN IF d = << >> THEN [nan |-> TRUE, n |-> 0]
     ELSE [nan |-> FALSE, n |-> NumberOf(d)]

\* Math.abs(a - b)
AbsDiff(a, b) == IF a >= b THEN a - b ELSE b - a

\* String.prototype.split on a one-character separator
RECURSIVE split(_, _)
split(s, sep) ==
  IF \E i \in DOMAIN s : s[i] = sep
    THEN LET k == Min({i \in DOMAIN s : s[i] = sep})
         IN <<SubSeq(s, 1, k - 1)>> \o split(SubSeq(s, k + 1, Len(s)), sep)
    ELSE <<s>>

\* extractBaseTitle (lines 1949-1959)
extractBaseTitle(title) ==
  LET TrailingYear == Sq(<<Star(C(SpaceCh)), Rep(C(DigitCh), 4), EOL>>)
      AfterWith == Sq(<<Plus(C(SpaceCh)), L(<<"w","i","t","h">>),
                        Plus(C(SpaceCh)), Plus(ANY), EOL>>)
      AfterStarring == Sq(<<Plus(C(SpaceCh)),
                            L(<<"s","t","a","r","r","i","n","g">>),
                            Plus(C(SpaceCh)), Plus(ANY), EOL>>)
  IN trim(replaceFirst(
            replaceFirst(
              replaceFirst(
                replaceFirst(
                  replaceFirst(
                    replaceFirst(title, TrailingYear, FALSE, << >>),
                    YearInParens, FALSE, << >>),
                  AfterColon, FALSE, << >>),
                AfterDash, FALSE, << >>),
              AfterWith, TRUE, << >>),
            AfterStarring, TRUE, << >>))

\* title.match(/\b(19\d{2}|20\d{2})\b/): the year, or NULL
requestedYear(title) ==
  LET Of(yearMatch) == IF yearMatch = NULL THEN NULL ELSE yearMatch.text
  IN Of(matchFirst(title, YearWord, FALSE))

\* title.match(/\b(with|starring)\s+([A-Za-z\s]+?)(?:\s|$)/i): NULL, or the
\* trimmed second group.  The white space after the keyword is greedy and
\* the name is lazy: it stops at the first white space or at the end.
actorMatch(title) ==
  LET t == toLowerCase(title)
      lead == Sq(<<WB, Alt(<<L(<<"w","i","t","h">>),
                             L(<<"s","t","a","r","r","i","n","g">>)>>),
                   Plus(C(SpaceCh))>>)
      name == Plus(C(LowerCh \cup SpaceCh))
      stop == Alt(<<C(SpaceCh), EOL>>)
      NameEnds(b) == {e \in Ends(name, t, {b}) : Ends(stop, t, {e}) # {}}
      LeadEnds(a) == {b \in Ends(lead, t, {a}) : NameEnds(b) # {}}
      Name(b) == [actor |-> trim(SubSeq(title, b, Min(NameEnds(b)) - 1))]
      At(starts) == IF starts = {} THEN NULL
                    ELSE Name(Max(LeadEnds(Min(starts))))
  IN At({a \in 1..(Len(t) + 1) : LeadEnds(a) # {}})

requestedActor(title) ==
  LET Of(match) == IF match = NULL THEN NULL ELSE match.actor
  IN Of(actorMatch(title))

\* getEditDistance (lines 1921-1947), row by row: row holds the entries
\* 0..j-1 of the row of character c, prev is the row before
RECURSIVE EditRow(_, _, _, _)
EditRow(row, prev, c, str1) ==
  LET j == Len(row)
  IN IF j > Len(str1) THEN row
     ELSE EditRow(Append(row, IF c = str1[j] THEN prev[j]
                              ELSE 1 + Min({prev[j], row[j], prev[j + 1]})),
                  prev, c, str1)
RECURSIVE EditRows(_, _, _)
EditRows(rows, str1, str2) ==
  LET i == Len(rows)
  IN IF i > Len(str2) THEN rows
     ELSE EditRows(Append(rows, EditRow(<<i>>, rows[i], str2[i], str1)),
                   str1, str2)
getEditDistance(str1, str2) ==
  EditRows(<<[j \in 1..(Len(str1) + 1) |-> j - 1]>>, str1, str2)
    [Len(str2) + 1][Len(str1) + 1]

\* calculateSimilarity(str1, str2) > 0.7 (lines 1911-1919 and 1908)
SimilarityAbove70(str1, str2) ==
  LET longer == IF Len(str1) > Len(str2) THEN str1 ELSE str2
      shorter == IF Len(str1) > Len(str2) THEN str2 ELSE str1
  IN IF Len(longer) = 0 THEN TRUE
     ELSE 10 * (Len(longer) - getEditDistance(longer, shorter))
            > 7 * Len(longer)

\* fuzzyActorMatch (lines 1900-1909)
fuzzyActorMatch(actor1, actor2) ==
  LET normalize(name) ==
        trim(replaceGlobal(toLowerCase(name),
                           C(Char \ (LowerCh \cup SpaceCh)), FALSE, << >>))
      Match(norm1, norm2) ==
        \/ includes(norm1, norm2)
        \/ includes(norm2, norm1)
        \/ SimilarityAbove70(norm1, norm2)
  IN Match(normalize(actor1), normalize(actor2))

\* the actor check of the qualified search (lines 1771-1790)
actorMatches(detailData, actor) ==
  LET actorNames == split(Field(detailData, "Actors"), ",")
      requestedActorLower == toLowerCase(actor)
  IN \E a \in DOMAIN actorNames :
       LET name == toLowerCase(trim(actorNames[a]))
       IN \/ includes(name, requestedActorLower)
          \/ includes(requestedActorLower, name)
          \/ fuzzyActorMatch(name, requestedActorLower)

Country ==
  Alt(<<L(<<"k","o","r","e","a","n">>), L(<<"j","a","p","a","n","e","s","e">>),
        L(<<"c","h","i","n","e","s","e">>), L(<<"f","r","e","n","c","h">>),
        L(<<"i","t","a","l","i","a","n">>), L(<<"s","p","a","n","i","s","h">>)>>)

s_wonder_woman == <<"w","o","n","d","e","r"," ","w","o","m","a","n">>

\* generateOMDBSearchVariations (lines 1960-2131): the variations, in order
generateOMDBSearchVariations(title) ==
  LET Variations(baseTitle, year, actor, country, titleWithoutCountry,
                 franchiseYearMatch) ==
  LET baseLower == toLowerCase(baseTitle)
      wonderWoman == <<OMDB[2].Title,
                       <<"W","o","n","d","e","r"," ","W","o","m","a","n",":"," ","1","9","8","4">> >>
      \* lines 1965-1979
      byYear ==
        IF year = NULL THEN << >>
        ELSE (IF parseInt(year).n >= 2020
                THEN <<baseTitle \o <<" ">> \o year,
                       baseTitle \o <<" ","(">> \o year \o <<")">> >>
                ELSE << >>)
             \o (IF year = s_1984 /\ includes(baseLower, s_wonder_woman)
                   THEN wonderWoman ELSE << >>)
      \* lines 1982-1987
      byActor ==
        IF actor = NULL THEN << >>
        ELSE <<baseTitle \o <<" ">> \o actor.actor,
               baseTitle \o <<" ","s","t","a","r","r","i","n","g"," ">>
                 \o actor.actor>>
      \* lines 1990-1992
      withoutYear == IF Test(FourDigits, title) THEN <<baseTitle>> ELSE << >>
      \* lines 1995-2015
      lowerWithout == toLowerCase(titleWithoutCountry)
      byCountry ==
        IF country = NULL THEN << >>
        ELSE (IF toLowerCase(country.text) = s_korean
                THEN (IF includes(lowerWithout, <<"t","a","x","i"," ","d","r","i","v","e","r">>)
                        THEN << <<"A"," ","T","a","x","i"," ","D","r","i","v","e","r">>,
                                <<"T","a","x","i"," ","D","r","i","v","e","r"," ","2","0","1","7">>,
                                <<"T","a","e","k","s","i"," ","W","o","o","n","j","u","n","s","a">> >>
                      ELSE IF includes(lowerWithout, <<"o","l","d","b","o","y">>)
                        THEN << <<"O","l","d","b","o","y">>,
                                <<"O","l","d","b","o","y"," ","2","0","0","3">> >>
                      ELSE IF includes(lowerWithout, <<"p","a","r","a","s","i","t","e">>)
                        THEN << <<"P","a","r","a","s","i","t","e">>,
                                <<"P","a","r","a","s","i","t","e"," ","2","0","1","9">>,
                                <<"G","i","s","a","e","n","g","c","h","u","n","g">> >>
                      ELSE << >>)
                     \o <<titleWithoutCountry \o <<" ","K","o","r","e","a","n">>,
                          titleWithoutCountry
                            \o <<" ","S","o","u","t","h"," ","K","o","r","e","a">> >>
                ELSE << >>)
             \o <<titleWithoutCountry>>
      \* lines 2048-2058
      byFranchiseYear ==
        IF franchiseYearMatch = NULL THEN << >>
        ELSE (IF /\ franchiseYearMatch.text = s_1984
                 /\ includes(baseLower, s_wonder_woman)
                THEN wonderWoman ELSE << >>)
             \o <<baseTitle \o <<" ">> \o franchiseYearMatch.text>>
      \* lines 2063-2099; the year-based universal variations come after
      \* the eleven fixed ones and never are among the first six
      franchises == {f \in DOMAIN franchiseMap :
                       includes(baseLower, franchiseMap[f].franchise)}
      byFranchise ==
        IF franchises # {} THEN franchiseMap[Min(franchises)].movies
        ELSE <<baseTitle \o <<" ","2">>,
               baseTitle \o <<" ","I","I">>,
               baseTitle \o <<" ","P","a","r","t"," ","2">>,
               baseTitle \o <<" ","P","a","r","t"," ","I","I">>,
               baseTitle \o <<":"," ","P","a","r","t"," ","T","w","o">>,
               baseTitle \o <<" ","R","e","t","u","r","n","s">> >>
      \* lines 2102-2119
      specific == {k \in DOMAIN specificMovieMappings :
                     includes(toLowerCase(title), specificMovieMappings[k].key)}
      bySpecific ==
        IF specific # {} THEN specificMovieMappings[Min(specific)].mappings
        ELSE << >>
  IN byYear \o byActor \o withoutYear \o byCountry \o byFranchiseYear
       \o byFranchise \o bySpecific
  IN Variations(extractBaseTitle(title), requestedYear(title),
                actorMatch(title), matchFirst(title, Country, TRUE),
                trim(replaceGlobal(title, Country, TRUE, << >>)),
                matchFirst(title, FourDigits, FALSE))

\* Array.prototype.sort (stable) by a numeric key: keys[i] is the key of
\* results[i]
SortByKey(results, keys) ==
  [k \in DOMAIN results |->
     results[CHOOSE i \in DOMAIN results :
               Cardinality({j \in DOMAIN results :
                              \/ keys[j] < keys[i]
                              \/ (keys[j] = keys[i] /\ j < i)}) = k - 1]]

\* sortOMDBResults (lines 2133-2171).  With a requested year the comparator
\* orders by the distance to that year (an exact match has distance 0);
\* for a recent query it orders by year, newest first.
sortOMDBResults(results, searchTitle) ==
  LET Sorted(year) ==
  LET RecentYear == Sq(<<L(<<"2","0">>),
                         Alt(<<Sq(<<L(<<"2">>), C({"3","4","5","6","7","8","9"})>>),
                               Sq(<<C({"3","4","5","6","7","8","9"}), C(DigitCh)>>)>>)>>)
      isRecentQuery ==
        \/ includes(toLowerCase(searchTitle), <<"r","e","c","e","n","t">>)
        \/ includes(toLowerCase(searchTitle), <<"l","a","t","e","s","t">>)
        \/ Test(RecentYear, searchTitle)
      YearOf(m) == parseInt(m.Year).n
  IN IF year # NULL
       THEN SortByKey(results, [i \in DOMAIN results |->
                                  AbsDiff(YearOf(results[i]), parseInt(year).n)])
     ELSE IF isRecentQuery
       THEN SortByKey(results, [i \in DOMAIN results |-> 0 - YearOf(results[i])])
     ELSE results
  IN Sorted(requestedYear(searchTitle))

\* GET ?t=title
OMDBByTitle(title) ==
  LET hits == {m \in DOMAIN OMDB :
                 toLowerCase(OMDB[m].Title) = toLowerCase(trim(title))}
  IN IF hits = {} THEN NULL ELSE OMDB[Min(hits)]

\* GET ?s=keyword: searchData.Search, empty when the response is "False"
OMDBSearch(keyword) ==
  IF trim(keyword) = << >> THEN << >>
  ELSE SelectSeq(OMDB, LAMBDA m : includes(toLowerCase(m.Title),
                                           toLowerCase(trim(keyword))))

\* GET ?i=imdbID
OMDBById(imdbID) ==
  LET hits == {m \in DOMAIN OMDB : OMDB[m].imdbID = imdbID}
  IN IF hits = {} THEN NULL ELSE OMDB[Min(hits)]

\* the qualified keyword search of searchOMDB (lines 1712-1808) for a title
\* with a year or an actor: [found, data, skip]; skip says that the actor
\* did not match and the loop continues with the next title
QualifiedSearch(title) ==
  LET Checked(detailData, actor) ==
        IF detailData = NULL
          THEN [found |-> FALSE, skip |-> FALSE, data |-> NULL]
        ELSE IF actor # NULL /\ ~actorMatches(detailData, actor)
          THEN [found |-> FALSE, skip |-> TRUE, data |-> NULL]
        ELSE [found |-> TRUE, skip |-> FALSE, data |-> detailData]
      Detail(filteredResults) ==
        IF Len(filteredResults) > 0
          THEN OMDBById(filteredResults[1].imdbID) ELSE NULL
      Filtered(Search, year) ==
        LET InYear(m) ==
              \/ m.Year = year
              \/ /\ ~parseInt(m.Year).nan
                 /\ AbsDiff(parseInt(m.Year).n, parseInt(year).n) <= 1
        IN IF year # NULL THEN SelectSeq(Search, InYear) ELSE Search
  IN Checked(Detail(Filtered(OMDBSearch(extractBaseTitle(title)),
                             requestedYear(title))),
             requestedActor(title))

\* the first variation the title fetch finds (lines 1829-1847)
RECURSIVE FirstVariation(_)
FirstVariation(variations) ==
  IF variations = << >> THEN NULL
  ELSE OrElse(OMDBByTitle(Head(variations)), FirstVariation(Tail(variations)))

\* the keyword search with detail fetch (lines 1850-1888)
BroadSearch(title) ==
  LET Detail(Search) ==
        IF Len(Search) > 0
          THEN OMDBById(sortOMDBResults(Search, title)[1].imdbID)
          ELSE NULL
  IN Detail(OMDBSearch(extractBaseTitle(title)))

\* one round of the loop of searchOMDB: the movie found for title, or NULL
SearchTitle(title) ==
  LET Layers(qualified, specific) ==
        IF specific.found THEN specific.data
        ELSE IF specific.skip THEN NULL
        ELSE OrElse(OMDBByTitle(title),
                    OrElse(FirstVariation(generateOMDBSearchVariations(title)),
                           IF ~qualified THEN BroadSearch(title) ELSE NULL))
      Qualified(qualified) ==
        Layers(qualified,
               IF qualified THEN QualifiedSearch(title)
               ELSE [found |-> FALSE, skip |-> FALSE, data |-> NULL])
  IN Qualified(requestedYear(title) # NULL \/ requestedActor(title) # NULL)

\* searchOMDB (lines 1687-1897)
RECURSIVE searchOMDB(_)
searchOMDB(titles) ==
  IF titles = << >> THEN NULL
  ELSE OrElse(SearchTitle(Head(titles)), searchOMDB(Tail(titles)))

(***************************************************************************)
(* The store.  moviesTable and recommendationsTable hold their rows in     *)
(* insertion order; conversationsTable holds at most one row for each      *)
(* conversation id (the upsert's conflict target).  A recommendation row   *)
(* refers to a movie row (the embedded select of searchDatabase relies on  *)
(* that relation), so an insert with any other movie_id is refused.        *)
(***************************************************************************)
\* column ILIKE pattern: % stands for any text, _ for any one character
ilike(text, pattern) ==
  LET p == toLowerCase(pattern)
      parts == [k \in DOMAIN p |-> IF p[k] = "%" THEN Star(ANY)
                                   ELSE IF p[k] = "_" THEN ANY
                                   ELSE L(<<p[k]>>)]
  IN (Len(text) + 1) \in Ends(Sq(parts), toLowerCase(text), {1})

\* .single() and .maybeSingle(): the row when exactly one row is selected;
\* no data otherwise (PGRST116 when .single() selects none, and when either
\* of them selects several)
Single(rows) == IF Len(rows) = 1 THEN rows[1] ELSE NULL

\* from("movies") ... .eq("user_id", userId).eq("imdbid", imdbID)
UserMovieRows(table, userId, imdbID) ==
  SelectSeq(table, LAMBDA row : row.user_id = userId /\ row.imdbid = imdbID)

\* from("recommendations") ... .eq("movie_id", movieId)
RecommendationRows(table, movieId) ==
  SelectSeq(table, LAMBDA row : row.movie_id = movieId)

\* findBestTitleMatch (lines 1569-1602): the loop over movies from index k
RECURSIVE BestTitleLoop(_, _, _, _, _)
BestTitleLoop(score, movies, k, bestMatch, bestScore) ==
  IF k > Len(movies) THEN bestMatch
  ELSE IF score[k] > bestScore
    THEN BestTitleLoop(score, movies, k + 1, movies[k], score[k])
  ELSE BestTitleLoop(score, movies, k + 1, bestMatch, bestScore)

findBestTitleMatch(searchTitle, movies) ==
  LET normalize(str) ==
        trim(replaceGlobal(toLowerCase(str),
                           C(Char \ (WordCh \cup SpaceCh)), FALSE, << >>))
      Score(searchNormalized, movieNormalized) ==
        LET words == split(searchNormalized, " ")
            common ==
              Cardinality({w \in DOMAIN words :
                             /\ includes(movieNormalized, words[w])
                             /\ Len(words[w]) > 2})
        IN common * 10 - AbsDiff(Len(searchNormalized), Len(movieNormalized))
  IN BestTitleLoop([k \in DOMAIN movies |->
                      Score(normalize(searchTitle), normalize(movies[k].title))],
                   movies, 1, movies[1], 0)

\* searchPatterns (lines 1525-1529)
searchPatterns(title) ==
  << <<"%">> \o title \o <<"%">>,
     <<"%">> \o replaceGlobal(title, L(<<":">>), FALSE, << >>) \o <<"%">>,
     <<"%">> \o replaceGlobal(title, Plus(C(SpaceCh)), FALSE, <<"%">>)
             \o <<"%">> >>

\* one round of the loop of searchDatabase (lines 1500-1558) on the rows of
\* the user; limit(3) keeps the first three rows selected
SearchDatabaseTitle(title, rows) ==
  LET fuzzyMatches(pattern) ==
        SliceFirst(SelectSeq(rows, LAMBDA row : ilike(row.title, pattern)), 3)
      Fuzzy(patterns) ==
        LET First(hits) ==
              IF hits # {}
                THEN findBestTitleMatch(title,
                                        fuzzyMatches(patterns[Min(hits)]))
                ELSE NULL
        IN First({p \in 1..3 : Len(fuzzyMatches(patterns[p])) > 0})
  IN OrElse(Single(SelectSeq(rows, LAMBDA row : ilike(row.title, title))),
            Fuzzy(searchPatterns(title)))

\* searchDatabase (lines 1491-1568)
searchDatabase(titles, userId, table) ==
  IF userId = NULL THEN NULL
  ELSE LET rows == SelectSeq(table, LAMBDA row : row.user_id = userId)
           matches == [t \in DOMAIN titles |->
                         SearchDatabaseTitle(titles[t], rows)]
           found == {t \in DOMAIN titles : matches[t] # NULL}
       IN IF found = {} THEN NULL ELSE matches[Min(found)]

\* getExistingRecommendation (lines 1604-1686) when no lookup fails
getExistingRecommendation(movieData, userId, movies, recommendations) ==
  IF userId # NULL /\ movieData.imdbID # NULL
    THEN LET userMovie == Single(UserMovieRows(movies, userId, movieData.imdbID))
         IN IF userMovie = NULL THEN NULL
            ELSE Single(RecommendationRows(recommendations, userMovie.id))
    ELSE Single(RecommendationRows(recommendations, movieData.id))

\* the row saveToDatabase inserts (lines 2348-2364); n numbers its id
MovieRow(movieData, userId, n) ==
  [id |-> Uuid(n), title |-> movieData.title, year |-> movieData.year,
   imdbid |-> movieData.imdbID, imdbrating |-> movieData.imdbRating,
   actors |-> movieData.actors, genre |-> movieData.genre,
   user_id |-> userId, created_at |-> Timestamp(n)]

\* the row processQuery inserts into recommendations (lines 488-494)
RecommendationRow(movieId, recommendation, n) ==
  [id |-> Uuid(n), movie_id |-> movieId,
   recommendation |-> recommendation.recommendation,
   worth_watching |-> recommendation.worth_watching,
   created_at |-> Timestamp(n)]

\* the row saveConversationToDatabase upserts (lines 708-718) at time n
ConversationRow(conversationId, conversation, userId, n) ==
  [conversation_id |-> conversationId, user_id |-> userId,
   turns |-> conversation.turnCount,
   total_tokens |-> conversation.totalTokens,
   last_activity |-> Timestamp(n),
   messages |-> conversation.messages,
   discussed_movies |-> conversation.discussedMovies,
   user_preferences |-> conversation.userPreferences,
   updated_at |-> Timestamp(n)]

\* the conversation loadConversation builds from a row (lines 595-601)
FromRow(data) ==
  [messages |-> data.messages, discussedMovies |-> data.discussed_movies,
   userPreferences |-> data.user_preferences,
   totalTokens |-> data.total_tokens, turnCount |-> data.turns]

\* isGeneralGreeting (lines 2418-2432)
isGeneralGreeting(query) ==
  LET normalizedQuery == trim(toLowerCase(query))
  IN \E pattern \in greetingPatterns :
       \/ normalizedQuery = pattern
       \/ startsWith(normalizedQuery, pattern \o <<" ">>)
       \/ endsWith(normalizedQuery, <<" ">> \o pattern)

(***************************************************************************)
(* The texts of processQuery and handleGeneralConversation.                *)
(***************************************************************************)
\* line 325
CouldNotIdentify ==
  <<"I"," ","c","o","u","l","d","n","'","t"," ","i","d","e","n","t","i","f","y"," ","a"," ","m","o","v","i","e"," ","i","n"," ","y","o","u","r"," ","q","u","e","r","y","."," ","C","o","u","l","d"," ","y","o","u"," ","p","l","e","a","s","e"," ","s","p","e","c","i","f","y"," ","w","h","i","c","h"," ","m","o","v","i","e"," ","y","o","u","'","r","e"," ","a","s","k","i","n","g"," ","a","b","o","u","t","?">>

\* line 333
SequelFallback(lastTitle) ==
  <<"I"," ","u","n","d","e","r","s","t","a","n","d"," ","y","o","u","'","r","e"," ","l","o","o","k","i","n","g"," ","f","o","r"," ","a"," ","s","e","q","u","e","l"," ","o","r"," ","d","i","f","f","e","r","e","n","t"," ","v","e","r","s","i","o","n"," ","o","f"," ","\"">>
    \o lastTitle
    \o <<"\"","."," ","C","o","u","l","d"," ","y","o","u"," ","b","e"," ","m","o","r","e"," ","s","p","e","c","i","f","i","c","?"," ","F","o","r"," ","e","x","a","m","p","l","e",","," ","t","r","y"," ","\"","W","o","n","d","e","r"," ","W","o","m","a","n"," ","1","9","8","4","\""," ","i","f"," ","y","o","u","'","r","e"," ","l","o","o","k","i","n","g"," ","f","o","r"," ","t","h","a","t"," ","s","p","e","c","i","f","i","c"," ","m","o","v","i","e",".">>

\* line 335
NotSureFallback(lastTitle) ==
  <<"I","'","m"," ","n","o","t"," ","s","u","r","e"," ","w","h","i","c","h"," ","m","o","v","i","e"," ","y","o","u","'","r","e"," ","r","e","f","e","r","r","i","n","g"," ","t","o","."," ","A","r","e"," ","y","o","u"," ","a","s","k","i","n","g"," ","a","b","o","u","t"," ","\"">>
    \o lastTitle
    \o <<"\""," ","o","r"," ","a"," ","d","i","f","f","e","r","e","n","t"," ","f","i","l","m","?"," ","P","l","e","a","s","e"," ","c","l","a","r","i","f","y",".">>

\* line 359
ClarificationResponse(title) ==
  <<"I"," ","s","e","e"," ","y","o","u"," ","m","e","n","t","i","o","n","e","d"," ","\"">>
    \o title
    \o <<"\"",","," ","b","u","t"," ","i","t"," ","s","e","e","m","s"," ","l","i","k","e"," ","y","o","u"," ","m","i","g","h","t"," ","b","e"," ","l","o","o","k","i","n","g"," ","f","o","r"," ","a"," ","d","i","f","f","e","r","e","n","t"," ","m","o","v","i","e"," ","o","r"," ","s","e","q","u","e","l","."," ","C","o","u","l","d"," ","y","o","u"," ","b","e"," ","m","o","r","e"," ","s","p","e","c","i","f","i","c","?"," ","F","o","r"," ","e","x","a","m","p","l","e",","," ","i","f"," ","y","o","u","'","r","e"," ","l","o","o","k","i","n","g"," ","f","o","r"," ","W","o","n","d","e","r"," ","W","o","m","a","n","'","s"," ","s","e","q","u","e","l",","," ","t","r","y"," ","\"","W","o","n","d","e","r"," ","W","o","m","a","n"," ","1","9","8","4","\"",".">>

\* a reply without text, in place of the reply for a movie that is not found
NoResponseText(title, query, conversation) == << >>

\* lines 383, 394 and 396
NotFoundResponse(title, query, conversation) ==
  IF Len(conversation.discussedMovies) = 0
    THEN <<"I"," ","c","o","u","l","d","n","'","t"," ","f","i","n","d"," ","i","n","f","o","r","m","a","t","i","o","n"," ","a","b","o","u","t"," ","\"">>
    \o title
    \o <<"\"","."," ","C","o","u","l","d"," ","y","o","u"," ","c","h","e","c","k"," ","t","h","e"," ","s","p","e","l","l","i","n","g"," ","o","r"," ","t","r","y"," ","a","s","k","i","n","g"," ","a","b","o","u","t"," ","a"," ","d","i","f","f","e","r","e","n","t"," ","m","o","v","i","e","?">>
  ELSE IF \/ includes(toLowerCase(title), s_korean)
          \/ includes(toLowerCase(title), <<"j","a","p","a","n","e","s","e">>)
          \/ includes(toLowerCase(query), s_korean)
          \/ includes(toLowerCase(query), <<"j","a","p","a","n","e","s","e">>)
    THEN <<"I"," ","c","o","u","l","d","n","'","t"," ","f","i","n","d"," ","a"," ","K","o","r","e","a","n"," ","v","e","r","s","i","o","n"," ","o","f"," ","\"">>
    \o Last(conversation.discussedMovies).title
    \o <<"\"","."," ","Y","o","u"," ","m","i","g","h","t"," ","b","e"," ","t","h","i","n","k","i","n","g"," ","o","f"," ","a"," ","d","i","f","f","e","r","e","n","t"," ","K","o","r","e","a","n"," ","f","i","l","m"," ","w","i","t","h"," ","a"," ","s","i","m","i","l","a","r"," ","t","h","e","m","e","."," ","C","o","u","l","d"," ","y","o","u"," ","p","r","o","v","i","d","e"," ","m","o","r","e"," ","d","e","t","a","i","l","s"," ","o","r"," ","t","r","y"," ","s","e","a","r","c","h","i","n","g"," ","f","o","r"," ","s","p","e","c","i","f","i","c"," ","K","o","r","e","a","n"," ","m","o","v","i","e"," ","t","i","t","l","e","s","?">>
  ELSE <<"I"," ","c","o","u","l","d","n","'","t"," ","f","i","n","d"," ","\"">>
    \o title
    \o <<"\"","."," ","A","r","e"," ","y","o","u"," ","l","o","o","k","i","n","g"," ","f","o","r"," ","s","o","m","e","t","h","i","n","g"," ","s","i","m","i","l","a","r"," ","t","o"," ","\"">>
    \o Last(conversation.discussedMovies).title
    \o <<"\""," ","t","h","a","t"," ","w","e"," ","d","i","s","c","u","s","s","e","d"," ","e","a","r","l","i","e","r",","," ","o","r"," ","a"," ","c","o","m","p","l","e","t","e","l","y"," ","d","i","f","f","e","r","e","n","t"," ","m","o","v","i","e","?">>

\* line 438
ExistingMessage(movie) ==
  <<"H","e","r","e","'","s"," ","m","y"," ","d","e","t","a","i","l","e","d"," ","r","e","c","o","m","m","e","n","d","a","t","i","o","n"," ","f","o","r"," ","\"">>
    \o movie.title
    \o <<"\""," ","(">>
    \o movie.year
    \o <<")",".">>

\* lines 507-517
AssistantMessage(movie, conversation) ==
  IF \E k \in DOMAIN conversation.discussedMovies :
       toLowerCase(conversation.discussedMovies[k].title)
         = toLowerCase(movie.title)
    THEN <<"H","e","r","e","'","s"," ","t","h","e"," ","d","e","t","a","i","l","e","d"," ","r","e","c","o","m","m","e","n","d","a","t","i","o","n"," ","f","o","r"," ","\"">>
    \o movie.title
    \o <<"\""," ","a","g","a","i","n",".">>
    ELSE <<"G","r","e","a","t"," ","c","h","o","i","c","e","!"," ","H","e","r","e","'","s"," ","m","y"," ","d","e","t","a","i","l","e","d"," ","t","a","k","e"," ","o","n"," ","\"">>
    \o movie.title
    \o <<"\""," ","(">>
    \o movie.year
    \o <<")",".">>

\* lines 942 and 983
HelpResponse ==
  <<"I","'","m"," ","h","e","r","e"," ","t","o"," ","h","e","l","p"," ","y","o","u"," ","d","i","s","c","o","v","e","r"," ","g","r","e","a","t"," ","m","o","v","i","e","s","!"," ","W","h","a","t"," ","f","i","l","m"," ","i","n","t","e","r","e","s","t","s"," ","y","o","u","?">>

\* line 946
WelcomeResponse ==
  <<"H","e","l","l","o","!"," ","I","'","m"," ","y","o","u","r"," ","m","o","v","i","e"," ","a","d","v","i","s","o","r","."," ","W","h","a","t"," ","f","i","l","m"," ","h","a","s"," ","c","a","u","g","h","t"," ","y","o","u","r"," ","i","n","t","e","r","e","s","t"," ","t","o","d","a","y","?">>

\* line 566
ErrorResponse ==
  <<"A","n"," ","e","r","r","o","r"," ","o","c","c","u","r","r","e","d"," ","w","h","i","l","e"," ","p","r","o","c","e","s","s","i","n","g"," ","y","o","u","r"," ","r","e","q","u","e","s","t","."," ","P","l","e","a","s","e"," ","t","r","y"," ","a","g","a","i","n",".">>

(***************************************************************************)
(* processQuery.  Every request is served by a MovieButlerChain of its     *)
(* own, whose conversation store starts empty, so a request works on the   *)
(* conversation it loaded; requests share the three tables.  A request     *)
(* advances from one access to the tables to the next, and requests        *)
(* interleave between these steps.  faults is the number of calls of a     *)
(* dependency (a table, the catalog, a language model) that may still      *)
(* fail; clock numbers the ids and the times drawn so far.                 *)
(***************************************************************************)
MaxRequests == 2

\* the queries of the requests, trimmed by the entry point
PipelineQueries ==
  { OMDB[2].Title,
    OMDB[4].Title,
    <<"H","o","w"," ","i","s"," ","2","8"," ","D","a","y","s"," ","L","a","t","e","r">>,
    <<"r","e","c","o","m","m","e","n","d"," ","s","i","m","i","l","a","r">> }

\* a request as the entry point hands it to processQuery; sequential says
\* that every earlier request had returned when this one arrived.  calls
\* lists the calls of dependencies the request has issued, in order; status
\* is the HTTP status of the entry point's response, 0 while there is none;
\* chain says that a MovieButlerChain was constructed for the request.
NewRequest(userId, query, conversationId, sequential) ==
  [userId |-> userId, query |-> query, conversationId |-> conversationId,
   sequential |-> sequential, pc |-> "load",
   loaded |-> NULL, conversation |-> NULL,
   isGeneralConversation |-> FALSE, movieTitles |-> << >>,
   normalizedMovie |-> NULL, path |-> "none", trace |-> {},
   calls |-> << >>, response |-> NULL, status |-> 0, chain |-> TRUE]

\* the result of processQuery; a field the result does not have is NULL
Response(message, movie, recommendation, conversation) ==
  [message |-> message, movie |-> movie, recommendation |-> recommendation,
   conversation |-> conversation, error |-> NULL]

\* the bodies of the requests: a field that is absent, null or the empty
\* text is NULL
Payloads ==
  [userId : UserIds, query : PipelineQueries \cup {NULL},
   conversationId : ConversationIds \cup {NULL}]

\* a validation that lets every body pass
NeverMissing(value) == FALSE

\* !payload.query, !payload.conversationId (lines 37 and 44)
Missing(value) == value = NULL

\* lines 39 and 46
QueryIsRequired ==
  <<"Q","u","e","r","y"," ","i","s"," ","r","e","q","u","i","r","e","d">>

ConversationIdIsRequired ==
  <<"C","o","n","v","e","r","s","a","t","i","o","n"," ","I","D"," ","i","s"," ","r","e","q","u","i","r","e","d">>

\* the entry point builds the context, constructs a MovieButlerChain and
\* calls processQuery (lines 51-63)
Receive ==
  /\ Len(requests) < MaxRequests
  /\ \E payload \in Payloads :
       /\ ~Missing(payload.query)
       /\ ~Missing(payload.conversationId)
       /\ requests' =
            Append(requests,
                   NewRequest(payload.userId, payload.query,
                              payload.conversationId,
                              \A r \in DOMAIN requests :
                                 requests[r].pc = "done"))
  /\ UNCHANGED <<memVars, fnVars, moviesTable, recommendationsTable,
                 conversationsTable, clock, faults>>

\* the entry point answers a body without query or without conversationId
\* (lines 36-49)
Reject ==
  /\ Len(requests) < MaxRequests
  /\ \E payload \in Payloads :
       /\ Missing(payload.query) \/ Missing(payload.conversationId)
       /\ requests' =
            Append(requests,
                   [NewRequest(payload.userId, payload.query,
                               payload.conversationId,
                               \A r \in DOMAIN requests :
                                  requests[r].pc = "done")
                      EXCEPT !.chain = FALSE,
                             !.response =
                                [Response(NULL, NULL, NULL, NULL) EXCEPT
                                   !.error = IF Missing(payload.query)
                                               THEN QueryIsRequired
                                               ELSE ConversationIdIsRequired],
                             !.status = 400,
                             !.path = "rejected",
                             !.pc = "done"])
  /\ UNCHANGED <<memVars, fnVars, moviesTable, recommendationsTable,
                 conversationsTable, clock, faults>>

\* the requests that stand at a step
At(pc) == {r \in DOMAIN requests : requests[r].pc = pc}

\* steps 1 to 3 of processQuery: loadConversation, saveUserMessage and
\* detectGeneralConversation
LoadConversation ==
  \E r \in At("load"), fails \in BOOLEAN :
   \E isGeneralConversation \in {detectGeneralConversation(requests[r].query)} :
    LET req == requests[r]
        data == IF fails THEN NULL
                         ELSE conversationsTable[req.conversationId]
        conversation == IF data # NULL THEN FromRow(data) ELSE NewConversation
    IN /\ fails => faults > 0
       /\ faults' = IF fails THEN faults - 1 ELSE faults
       /\ requests' =
            [requests EXCEPT ![r] =
               [req EXCEPT
                  !.loaded = conversation,
                  !.calls = Append(@, "loadConversation"),
                  !.conversation = saveUserMessage(conversation, req.query),
                  !.isGeneralConversation = isGeneralConversation,
                  !.pc = IF isGeneralConversation THEN "general"
                                                  ELSE "extract"]]
       /\ UNCHANGED <<memVars, fnVars, moviesTable, recommendationsTable,
                      conversationsTable, clock>>

\* a reply whose memory is rolled back when the upsert fails
ReplyWithRollback(r, req, message, movieData, response, path, saved) ==
  LET conversation ==
        IF saved THEN saveAssistantMessage(req.conversation, message, movieData)
                 ELSE req.conversation
  IN /\ requests' =
          [requests EXCEPT ![r] =
             [req EXCEPT !.conversation = conversation,
                         !.response = response,
                         !.path = path,
                         !.trace = @ \cup (IF saved THEN {"upsert"} ELSE {}),
                         !.calls = Append(@, "upsertConversation"),
                         !.status = 200,
                         !.pc = "done"]]
     /\ conversationsTable' =
          IF saved
            THEN [conversationsTable EXCEPT ![req.conversationId] =
                    ConversationRow(req.conversationId, conversation,
                                    req.userId, clock)]
            ELSE conversationsTable

\* saveAssistantMessage with its upsert, followed by the return of
\* processQuery; saved says that the upsert succeeds
Reply(r, req, message, movieData, response, path, saved) ==
  LET conversation == saveAssistantMessage(req.conversation, message, movieData)
  IN /\ requests' =
          [requests EXCEPT ![r] =
             [req EXCEPT !.conversation = conversation,
                         !.response = response,
                         !.path = path,
                         !.trace = @ \cup (IF saved THEN {"upsert"} ELSE {}),
                         !.calls = Append(@, "upsertConversation"),
                         !.status = 200,
                         !.pc = "done"]]
     /\ conversationsTable' =
          IF saved
            THEN [conversationsTable EXCEPT ![req.conversationId] =
                    ConversationRow(req.conversationId, conversation,
                                    req.userId, clock)]
            ELSE conversationsTable

\* outcomes of conversationChain.call
ConversationOutcomes ==
  { [throws |-> TRUE, text |-> << >>, tokens |-> 0],
    [throws |-> FALSE, text |-> << >>, tokens |-> 0],
    [throws |-> FALSE, tokens |-> 30,
     text |-> <<"I"," ","c","a","n"," ","s","u","g","g","e","s","t"," ","a"," ","f","e","w",".">>] }

\* handleGeneralConversation (lines 895-987)
HandleGeneralConversation ==
  \E r \in At("general"), llm \in ConversationOutcomes, saved \in BOOLEAN :
    LET req == [requests[r] EXCEPT !.calls = Append(@, "conversationChain")]
        isNewConversation == Len(req.conversation.messages) <= 1
        responseText ==
          IF isNewConversation /\ isGeneralGreeting(req.query)
            THEN WelcomeResponse
            ELSE OrElse(trim(llm.text), HelpResponse)
        counted == [req.conversation EXCEPT !.totalTokens = @ + llm.tokens]
        used == (IF llm.throws THEN 1 ELSE 0) + (IF saved THEN 0 ELSE 1)
    IN /\ used <= faults
       /\ faults' = faults - used
       /\ IF llm.throws
            THEN Reply(r, req, HelpResponse, NULL,
                       Response(HelpResponse, NULL, NULL, NULL),
                       "general", saved)
            ELSE Reply(r, [req EXCEPT !.conversation = counted],
                       responseText, NULL,
                       Response(responseText, NULL, NULL,
                                [turnCount |-> counted.turnCount,
                                 totalTokens |-> counted.totalTokens]),
                       "general", saved)
       /\ UNCHANGED <<memVars, fnVars, moviesTable, recommendationsTable,
                      clock>>

\* the answers of titleExtractionChain.invoke to a query: no title, the
\* type of a request for similar movies, or a catalog title the query names
TitleAnswers(query) ==
  { [throws |-> TRUE, text |-> << >>, tokens |-> 0],
    [throws |-> FALSE, text |-> NotAvailable, tokens |-> 25],
    [throws |-> FALSE, tokens |-> 25,
     text |-> <<"S","I","M","I","L","A","R","_","R","E","C","O","M","M","E","N","D","A","T","I","O","N">>] }
  \cup { [throws |-> FALSE, text |-> OMDB[m].Title, tokens |-> 25] :
           m \in {k \in DOMAIN OMDB :
                    includes(toLowerCase(query), toLowerCase(OMDB[k].Title))} }

\* the chain is not invoked when the direct bypass or the contextual
\* handler supplies the title (lines 1000-1022)
InvokesTitleChain(query, conversation) ==
  TitleSource(query, conversation,
              [throws |-> TRUE, text |-> << >>, tokens |-> 0]) = "regex"

\* line 331
isSequelRequest(query) ==
  TestI(Alt(<<L(<<"s","e","q","u","e","l">>), L(<<"n","e","x","t">>),
              Sq(<<L(<<"f","o","l","l","o","w">>), ANY, L(<<"u","p">>)>>),
              Sq(<<L(<<"p","a","r","t">>), Plus(C(SpaceCh)), L(<<"2">>)>>),
              Sq(<<L(<<"p","a","r","t">>), Plus(C(SpaceCh)), L(<<"i","i">>)>>),
              L(<<"1","9","8","4">>)>>), query)

\* line 345
isDifferentRequest(query) ==
  TestI(Alt(<<L(<<"s","e","q","u","e","l">>),
              L(<<"d","i","f","f","e","r","e","n","t">>),
              L(<<"a","n","o","t","h","e","r">>), L(<<"e","l","s","e">>),
              L(<<"1","9","8","4">>), L(<<"n","e","w">>),
              L(<<"n","e","x","t">>)>>), query)

\* lines 322-337: the reply when no title was extracted
FallbackResponse(query, conversation) ==
  IF Len(conversation.discussedMovies) = 0 THEN CouldNotIdentify
  ELSE IF isSequelRequest(query)
    THEN SequelFallback(Last(conversation.discussedMovies).title)
  ELSE NotSureFallback(Last(conversation.discussedMovies).title)

\* lines 343-351: the extracted title repeats the last discussed movie and
\* the query asks for something different
IsRepetition(query, movieTitles, conversation) ==
  /\ Len(conversation.discussedMovies) > 0
  /\ Len(movieTitles) > 0
  /\ isDifferentRequest(query)
  /\ LET extractedTitle == toLowerCase(movieTitles[1])
         lastTitle == toLowerCase(Last(conversation.discussedMovies).title)
     IN \/ extractedTitle = lastTitle
        \/ extractBaseTitle(extractedTitle) = extractBaseTitle(lastTitle)

\* step 4 of processQuery with the two replies that end the request before
\* any lookup (lines 316-363)
ExtractTitles ==
  \E r \in At("extract"), saved \in BOOLEAN :
    \E llm \in IF InvokesTitleChain(requests[r].query, requests[r].conversation)
                 THEN TitleAnswers(requests[r].query)
                 ELSE {[throws |-> FALSE, text |-> << >>, tokens |-> 0]} :
     \E movieTitles \in {extractMovieTitles(requests[r].query,
                                            requests[r].conversation, llm)},
        totalTokens \in {TokensAfterExtraction(requests[r].query,
                                               requests[r].conversation, llm)} :
     \E repeats \in {IsRepetition(requests[r].query, movieTitles,
                                  requests[r].conversation)} :
      LET req == requests[r]
          conversation == [req.conversation EXCEPT !.totalTokens = totalTokens]
          extracted ==
            [req EXCEPT !.conversation = conversation,
                        !.movieTitles = movieTitles,
                        !.calls = IF llm.text # << >> \/ llm.throws
                                    THEN Append(@, "titleExtractionChain")
                                    ELSE @]
          used == (IF llm.throws THEN 1 ELSE 0) + (IF saved THEN 0 ELSE 1)
      IN /\ ~saved => (Len(movieTitles) = 0 \/ repeats)
         /\ used <= faults
         /\ faults' = faults - used
         /\ IF Len(movieTitles) = 0
              THEN \E message \in {FallbackResponse(req.query, conversation)} :
                     Reply(r, extracted, message, NULL,
                           Response(message, NULL, NULL, NULL),
                           "no_title", saved)
            ELSE IF repeats
              THEN \E message \in {ClarificationResponse(movieTitles[1])} :
                     Reply(r, extracted, message, NULL,
                           Response(message, NULL, NULL, NULL),
                           "anti_repetition", saved)
            ELSE /\ requests' = [requests EXCEPT ![r] =
                                   [extracted EXCEPT !.pc = "search"]]
                 /\ UNCHANGED conversationsTable
         /\ UNCHANGED <<memVars, fnVars, moviesTable, recommendationsTable,
                        clock>>

\* steps 5 to 7 of processQuery: searchDatabase, searchOMDB and
\* normalizeMovieData, with the reply for a movie that is not found
\* (lines 366-412).  The search of the store, the catalog and the upsert of
\* the reply may each fail.
SearchMovies ==
  \E r \in At("search"), storeFails, catalogFails, saved \in BOOLEAN :
   \E stored \in {IF storeFails THEN NULL
                   ELSE searchDatabase(requests[r].movieTitles,
                                       requests[r].userId, moviesTable)} :
   \E movieData \in {IF stored # NULL THEN stored
                      ELSE IF catalogFails THEN NULL
                      ELSE searchOMDB(requests[r].movieTitles)} :
    LET req == requests[r]
        searched ==
          [req EXCEPT !.trace = @ \cup {"searchDatabase"}
                                  \cup (IF stored = NULL THEN {"searchOMDB"}
                                                         ELSE {}),
                      !.calls = @ \o (IF req.userId # NULL
                                        THEN <<"searchDatabase">> ELSE << >>)
                                  \o (IF stored = NULL
                                        THEN <<"searchOMDB">> ELSE << >>)]
        used == (IF storeFails THEN 1 ELSE 0)
                + (IF catalogFails THEN 1 ELSE 0)
                + (IF saved THEN 0 ELSE 1)
    IN /\ storeFails => req.userId # NULL
       /\ catalogFails => stored = NULL
       /\ ~saved => movieData = NULL
       /\ used <= faults
       /\ faults' = faults - used
       /\ IF movieData = NULL
            THEN \E message \in {NotFoundResponse(req.movieTitles[1], req.query,
                                                   req.conversation)} :
                    /\ Reply(r, searched, message, NULL,
                             Response(message, NULL, NULL, NULL),
                             "not_found", saved)
                    /\ UNCHANGED clock
            ELSE /\ requests' =
                      [requests EXCEPT ![r] =
                         [searched EXCEPT
                            !.normalizedMovie =
                               normalizeMovieData(movieData, clock + 1),
                            !.pc = IF req.userId # NULL THEN "saveToDatabase"
                                                        ELSE "existing"]]
                 /\ clock' = clock + 1
                 /\ UNCHANGED conversationsTable
       /\ UNCHANGED <<memVars, fnVars, moviesTable, recommendationsTable>>

\* saveToDatabase, first half (lines 2324-2343): does the user have the
\* movie?  A failed check is logged and the movie is inserted.
CheckUserMovie ==
  \E r \in At("saveToDatabase"), fails \in BOOLEAN :
   \E existingUserMovie \in
        {IF fails THEN NULL
         ELSE Single(UserMovieRows(moviesTable, requests[r].userId,
                                   requests[r].normalizedMovie.imdbID))} :
    LET req == requests[r]
    IN /\ fails => faults > 0
       /\ faults' = IF fails THEN faults - 1 ELSE faults
       /\ requests' =
            [requests EXCEPT ![r] =
               IF existingUserMovie # NULL
                 THEN [req EXCEPT !.normalizedMovie.id = existingUserMovie.id,
                                  !.calls = Append(@, "checkUserMovie"),
                                  !.pc = "existing"]
                 ELSE [req EXCEPT !.calls = Append(@, "checkUserMovie"),
                                  !.pc = "insertMovie"]]
       /\ UNCHANGED <<memVars, fnVars, moviesTable, recommendationsTable,
                      conversationsTable, clock>>

\* saveToDatabase, second half (lines 2344-2388), and line 424: the insert
\* of the user's movie row.  A failed insert leaves the id of the
\* normalized movie as it is.
InsertMovie ==
  \E r \in At("insertMovie"), fails \in BOOLEAN :
    LET req == [requests[r] EXCEPT !.calls = Append(@, "insertMovie")]
        dbMovie == MovieRow(req.normalizedMovie, req.userId, clock + 1)
    IN /\ fails => faults > 0
       /\ faults' = IF fails THEN faults - 1 ELSE faults
       /\ IF fails
            THEN /\ requests' = [requests EXCEPT ![r] =
                                   [req EXCEPT !.pc = "existing"]]
                 /\ UNCHANGED <<moviesTable, clock>>
            ELSE /\ requests' =
                      [requests EXCEPT ![r] =
                         [req EXCEPT !.normalizedMovie.id = dbMovie.id,
                                     !.trace = @ \cup {"insertMovie"},
                                     !.pc = "existing"]]
                 /\ moviesTable' = Append(moviesTable, dbMovie)
                 /\ clock' = clock + 1
       /\ UNCHANGED <<memVars, fnVars, recommendationsTable,
                      conversationsTable>>

\* step 9 of processQuery: getExistingRecommendation and the reply that
\* reuses the stored recommendation (lines 431-476)
GetExistingRecommendation ==
  \E r \in At("existing"), fault \in {"none", "lookup", "upsert"} :
   \E existingRecommendation \in
        {IF fault = "lookup" THEN NULL
         ELSE getExistingRecommendation(requests[r].normalizedMovie,
                                        requests[r].userId, moviesTable,
                                        recommendationsTable)} :
    LET req == [requests[r] EXCEPT
                  !.calls = Append(@, "getExistingRecommendation")]
        chatMessage == ExistingMessage(req.normalizedMovie)
    IN /\ fault # "none" => faults > 0
       /\ fault = "upsert" => existingRecommendation # NULL
       /\ faults' = IF fault = "none" THEN faults ELSE faults - 1
       /\ IF existingRecommendation # NULL
            THEN Reply(r, req, chatMessage, req.normalizedMovie,
                       Response(chatMessage, req.normalizedMovie,
                                [id |-> existingRecommendation.id,
                                 movie_id |-> req.normalizedMovie.id,
                                 recommendation |->
                                   existingRecommendation.recommendation,
                                 worth_watching |->
                                   existingRecommendation.worth_watching,
                                 created_at |->
                                   existingRecommendation.created_at],
                                [turnCount |-> req.conversation.turnCount + 1,
                                 totalTokens |->
                                   req.conversation.totalTokens]),
                       "reused", fault # "upsert")
            ELSE /\ requests' = [requests EXCEPT ![r] =
                                   [req EXCEPT !.pc = "generate"]]
                 /\ UNCHANGED conversationsTable
       /\ UNCHANGED <<memVars, fnVars, moviesTable, recommendationsTable,
                      clock>>

\* outcomes of recommendationChain.call; the fallback lists the similar
\* movies in table order
GenerationOutcomes ==
  {llm \in RecommendationOutcomes : llm.order = [i \in 1..4 |-> i]}

\* steps 10 to 13 of processQuery: generateRecommendation, the insert of
\* the recommendation and the reply (lines 479-561).  insert: the insert
\* succeeds, returns an error, or raises, which ends the request in the
\* catch of processQuery (lines 563-569).
StoreRecommendation ==
  \E r \in At("generate"), llm \in GenerationOutcomes,
     insert \in {"ok", "error", "throws"}, saved \in BOOLEAN :
   \E recommendation \in
        {generateRecommendation(requests[r].normalizedMovie, llm, clock + 1)} :
    LET req == requests[r]
        movie == req.normalizedMovie
        counted == [req.conversation EXCEPT
                      !.totalTokens = @ + recommendation.tokensUsed]
        inserts == req.userId # NULL /\ movie.id # NULL
        accepted == /\ inserts
                    /\ insert = "ok"
                    /\ \E m \in DOMAIN moviesTable : moviesTable[m].id = movie.id
        assistantMessage == AssistantMessage(movie, req.conversation)
        generated == [req EXCEPT !.conversation = counted,
                                 !.trace = @ \cup {"generateRecommendation"}
                                             \cup (IF accepted
                                                     THEN {"insertRecommendation"}
                                                     ELSE {}),
                                 !.calls =
                                    @ \o <<"recommendationChain">>
                                      \o (IF inserts
                                            THEN <<"insertRecommendation">>
                                            ELSE << >>)]
        used == (IF llm.throws THEN 1 ELSE 0)
                + (IF insert = "ok" THEN 0 ELSE 1)
                + (IF saved THEN 0 ELSE 1)
    IN /\ insert # "ok" => inserts
       /\ insert = "throws" => saved
       /\ used <= faults
       /\ faults' = faults - used
       /\ recommendationsTable' =
            IF accepted
              THEN Append(recommendationsTable,
                          RecommendationRow(movie.id, recommendation, clock + 2))
              ELSE recommendationsTable
       /\ clock' = IF accepted THEN clock + 2 ELSE clock + 1
       /\ IF insert = "throws"
            THEN /\ requests' =
                      [requests EXCEPT ![r] =
                         [generated EXCEPT
                            !.response = [Response(NULL, NULL, NULL, NULL)
                                            EXCEPT !.error = ErrorResponse],
                            !.path = "error",
                            !.status = 200,
                            !.pc = "done"]]
                 /\ UNCHANGED conversationsTable
            ELSE Reply(r, generated, assistantMessage, movie,
                       Response(assistantMessage, movie,
                                [id |-> recommendation.id,
                                 movie_id |-> movie.id,
                                 recommendation |->
                                   recommendation.recommendation,
                                 worth_watching |->
                                   recommendation.worth_watching,
                                 created_at |-> recommendation.created_at],
                                [turnCount |-> counted.turnCount + 1,
                                 totalTokens |-> counted.totalTokens
                                                   + recommendation.tokensUsed]),
                       "generated", saved)
       /\ UNCHANGED <<memVars, fnVars, moviesTable>>

Next ==
  \/ Receive
  \/ Reject
  \/ LoadConversation
  \/ HandleGeneralConversation
  \/ ExtractTitles
  \/ SearchMovies
  \/ CheckUserMovie
  \/ InsertMovie
  \/ GetExistingRecommendation
  \/ StoreRecommendation

Spec == Init /\ [][Next]_vars

\* the query of the end-to-end example of a movie question
HowIs28DaysLater ==
  <<"H","o","w"," ","i","s"," ","2","8"," ","D","a","y","s"," ","L","a","t","e","r">>

\* C9: with an empty conversation memory, processQuery on 'How is 28 Days
\* Later' classifies the query as a movie query, does not take the
\* general-conversation path, resolves the title '28 Days Later', performs
\* the catalog lookup and, when the lookup succeeds, returns a response
\* that carries both movie and recommendation.
C9_HowIs28DaysLaterIsAMovieQuery ==
  \A r \in DOMAIN requests :
    (/\ requests[r].query = HowIs28DaysLater
     /\ requests[r].pc = "done"
     /\ requests[r].loaded = NewConversation)
      => /\ ~requests[r].isGeneralConversation
         /\ requests[r].path # "general"
         /\ requests[r].movieTitles = <<OMDB[3].Title>>
         /\ "searchOMDB" \in requests[r].trace
         /\ requests[r].path \in {"reused", "generated"}
              => /\ requests[r].response.movie # NULL
                 /\ requests[r].response.recommendation # NULL

RecommendSimilar ==
  <<"r","e","c","o","m","m","e","n","d"," ","s","i","m","i","l","a","r">>

\* request r arrived after request r - 1 had returned a movie, and loaded
\* the conversation as that request left it
FollowsMovieTurn(r) ==
  /\ r > 1
  /\ requests[r].sequential
  /\ requests[r - 1].path \in {"reused", "generated"}
  /\ requests[r].loaded = requests[r - 1].conversation

\* C10: 'recommend similar', processed immediately after a turn that
\* discussed a movie, is classified general and handled by
\* handleGeneralConversation; no title is resolved or looked up in that
\* turn, no movie is appended to discussedMovies, and the reply refers to
\* the previously discussed title.
C10_RecommendSimilarIsGeneral ==
  \A r \in DOMAIN requests :
    (/\ requests[r].query = RecommendSimilar
     /\ requests[r].pc = "done"
     /\ FollowsMovieTurn(r))
      => /\ requests[r].isGeneralConversation
         /\ requests[r].path = "general"
         /\ requests[r].movieTitles = << >>
         /\ requests[r].trace \cap {"searchDatabase", "searchOMDB"} = {}
         /\ requests[r].conversation.discussedMovies
              = requests[r].loaded.discussedMovies
         /\ includes(requests[r].response.message,
                     Last(requests[r].loaded.discussedMovies).title)

\* request i stored a recommendation, and request j, of the same user and
\* with the same query, arrived after every earlier request had returned
\* and has returned as well
SecondRun(i, j) ==
  /\ i < j
  /\ requests[i].userId # NULL
  /\ requests[i].userId = requests[j].userId
  /\ requests[i].query = requests[j].query
  /\ "insertRecommendation" \in requests[i].trace
  /\ requests[j].sequential
  /\ requests[j].pc = "done"

\* C1: when processQuery is run a second time for the same movie by the
\* same logged-in user after a first run stored a recommendation (and no
\* call of a dependency fails), the response carries the stored
\* recommendation row verbatim (id, text, worth_watching, created_at),
\* generateRecommendation is not called in the second run, and no second
\* movie row is inserted.
C1_SecondRunReturnsStoredRecommendation ==
  \A i, j \in DOMAIN requests :
    (SecondRun(i, j) /\ faults = MaxFaults)
      => /\ requests[j].response.recommendation # NULL
         /\ \E k \in DOMAIN recommendationsTable :
              LET row == recommendationsTable[k]
                  sent == requests[j].response.recommendation
              IN /\ row.movie_id = requests[i].normalizedMovie.id
                 /\ sent.id = row.id
                 /\ sent.recommendation = row.recommendation
                 /\ sent.worth_watching = row.worth_watching
                 /\ sent.created_at = row.created_at
         /\ "generateRecommendation" \notin requests[j].trace
         /\ "insertMovie" \notin requests[j].trace

\* C2: in every reachable state of the store there is at most one movie
\* row for a user and an imdbid, and at most one recommendation row for a
\* movie row, whatever the requests, overlapping or with a failed lookup.
C2_AtMostOneRowPerUserAndMovie ==
  /\ \A a, b \in DOMAIN moviesTable :
       (/\ moviesTable[a].user_id = moviesTable[b].user_id
        /\ moviesTable[a].imdbid = moviesTable[b].imdbid) => a = b
  /\ \A a, b \in DOMAIN recommendationsTable :
       recommendationsTable[a].movie_id = recommendationsTable[b].movie_id
         => a = b

(***************************************************************************)
(* Failures of the dependencies.  SpecFailures serves one request at a     *)
(* time and lets every call of a request fail: the budget of failures is   *)
(* larger than the number of calls two requests issue.                     *)
(***************************************************************************)
MaxFailures == 20

InitFailures ==
  /\ InitMemory
  /\ InitFn
  /\ moviesTable = << >>
  /\ recommendationsTable = << >>
  /\ conversationsTable = [c \in ConversationIds |-> NULL]
  /\ requests = << >>
  /\ clock = 0
  /\ faults = MaxFailures

\* a request arrives when every earlier request has been answered
ReceiveInTurn ==
  /\ \A r \in DOMAIN requests : requests[r].pc = "done"
  /\ Receive

NextFailures ==
  \/ ReceiveInTurn
  \/ LoadConversation
  \/ HandleGeneralConversation
  \/ ExtractTitles
  \/ SearchMovies
  \/ CheckUserMovie
  \/ InsertMovie
  \/ GetExistingRecommendation
  \/ StoreRecommendation

SpecFailures == InitFailures /\ [][NextFailures]_vars

\* the request was handed to processQuery, which has returned
Returned(r) == requests[r].chain /\ requests[r].pc = "done"

\* no call of a dependency was issued twice by request r
NoCallRepeated(r) ==
  \A i, j \in DOMAIN requests[r].calls :
    requests[r].calls[i] = requests[r].calls[j] => i = j

C12_UnexpectedErrorIsAServerError ==
  \A r \in DOMAIN requests :
    (Returned(r) /\ requests[r].path = "error")
      => /\ requests[r].response.error = ErrorResponse
         /\ requests[r].status >= 500
         /\ requests[r].status <= 599

\* C13: a request whose body lacks query or conversationId is answered
\* with status 400 and an error text; no MovieButlerChain is constructed
\* for it, processQuery is not called, and the step that answers it leaves
\* the conversations, the movies and the recommendations as they are.
C13_MissingFieldIsRejected ==
  [][\A r \in DOMAIN requests' :
       (requests'[r].query = NULL \/ requests'[r].conversationId = NULL)
         => /\ requests'[r].status = 400
            /\ Len(requests'[r].response.error) > 0
            /\ ~requests'[r].chain
            /\ requests'[r].calls = << >>
            /\ requests'[r].conversation = NULL
            /\ r \in DOMAIN requests => requests'[r] = requests[r]
            /\ r \notin DOMAIN requests =>
                 UNCHANGED <<moviesTable, recommendationsTable,
                             conversationsTable>>]_vars

\* a body without conversationId is rejected after an earlier request has
\* stored a movie, a recommendation and its conversation
C13_Witness ==
  \E r \in DOMAIN requests :
    /\ r > 1
    /\ requests[r].conversationId = NULL
    /\ requests[r].query # NULL
    /\ requests[r].status = 400
    /\ Len(moviesTable) = 1
    /\ Len(recommendationsTable) = 1
    /\ conversationsTable[requests[1].conversationId] # NULL

(***************************************************************************)
(* The fallback of generateRecommendation applied to movies of every       *)
(* genre of the table, of catalog genres and of genres the table lacks.    *)
(***************************************************************************)
FallbackGenres ==
  {OMDB[m].Genre : m \in DOMAIN OMDB}
  \cup {genreMovies[k].key : k \in DOMAIN genreMovies}
  \cup { << >>,
         <<"N","/","A">>,
         <<"d","r","a","m","a">>,
         <<"C","o","m","e","d","y",","," ","R","o","m","a","n","c","e">>,
         <<"M","u","s","i","c","a","l">> }

FallbackRatings == {r \in RatingInputs : r.tenths \in {85, 70, 69, -1}}

InitFallback ==
  /\ InitMemory
  /\ InitPipeline
  /\ \E m \in DOMAIN OMDB, genre \in FallbackGenres, r \in FallbackRatings :
       call = [movieData |-> [normalizeMovieData(OMDB[m], 0)
                                EXCEPT !.genre = genre,
                                       !.imdbRating = r.text],
               tenths |-> r.tenths]
  /\ ret = NULL

NextFallback == GenerateRecommendation
SpecFallback == InitFallback /\ [][NextFallback]_vars

SimilarMoviesMarker ==
  <<"S","i","m","i","l","a","r"," ","m","o","v","i","e","s",":">>

\* the entries of genreMovies whose key contains the genre or is contained
\* in it, letter case aside; a movie without genre counts as a drama
EntriesOfGenre(genre) ==
  LET lowerGenre ==
        toLowerCase(IF genre = << >> THEN <<"D","r","a","m","a">> ELSE genre)
  IN {k \in DOMAIN genreMovies :
        \/ includes(lowerGenre, toLowerCase(genreMovies[k].key))
        \/ includes(toLowerCase(genreMovies[k].key), lowerGenre)}

\* text is " a, b, c." for three different titles a, b and c of movies
IsClauseOfThree(text, movies) ==
  \E a, b, c \in DOMAIN movies :
    /\ a # b /\ a # c /\ b # c
    /\ text = <<" ">> \o movies[a] \o <<",", " ">> \o movies[b]
                \o <<",", " ">> \o movies[c] \o <<".">>

\* C14: whenever the call of the recommendation model fails,
\* generateRecommendation returns a complete recommendation: a text that
\* begins with the quoted title and the year and has exactly one 'Similar
\* movies:' clause, which lists exactly three titles of an entry of the
\* genre table that matches the genre, or the three default titles when no
\* entry matches; a boolean worth_watching, an id and a creation time.
C14_FallbackIsComplete ==
  (ret # NULL /\ ret.threw) =>
    LET text == ret.recommendation.recommendation
        movie == call.movieData
        at == {i \in 1..Len(text) : OccursAt(SimilarMoviesMarker, text, i)}
        clause == SubSeq(text, Min(at) + Len(SimilarMoviesMarker), Len(text))
        entries == EntriesOfGenre(movie.genre)
    IN /\ Len(text) > 0
       /\ startsWith(text, <<"\"">> \o movie.title \o <<"\"", " ", "(">>
                             \o movie.year \o <<")">>)
       /\ Cardinality(at) = 1
       /\ IF entries = {}
            THEN clause = <<" ">> \o Join(popularMovies, <<",", " ">>) \o <<".">>
                 /\ Len(popularMovies) = 3
            ELSE \E k \in entries : IsClauseOfThree(clause, genreMovies[k].movies)
       /\ ret.recommendation.worth_watching \in BOOLEAN
       /\ ret.recommendation.id # NULL
       /\ ret.recommendation.created_at # NULL

\* the fallback has answered for a movie of the genres 'Drama, Horror,
\* Sci-Fi' with titles of the table's Drama entry
C14_Witness ==
  /\ ret # NULL
  /\ ret.threw
  /\ EntriesOfGenre(call.movieData.genre) # {}
  /\ call.movieData.genre = OMDB[3].Genre
  /\ includes(ret.recommendation.recommendation,
              <<"F","o","r","r","e","s","t"," ","G","u","m","p">>)

\* C15: every result of processQuery that is not the error result, on
\* every exit path, contains a message and conversation {turnCount,
\* totalTokens}.  (Every return statement carries logs: this.logs; the log
\* is not part of the state.)
C15_EveryResultHasConversation ==
  \A r \in DOMAIN requests :
    (Returned(r) /\ requests[r].path # "error")
      => /\ Len(requests[r].response.message) > 0
         /\ requests[r].response.conversation # NULL

\* C18: in every response that carries conversation {turnCount,
\* totalTokens}, turnCount is the turn counter and totalTokens the token
\* counter of the conversation memory as they stand when the request
\* returns.
C18_ResponseCountersMatchMemory ==
  \A r \in DOMAIN requests :
    (Returned(r) /\ requests[r].response.conversation # NULL)
      => /\ requests[r].response.conversation.turnCount
              = requests[r].conversation.turnCount
         /\ requests[r].response.conversation.totalTokens
              = requests[r].conversation.totalTokens

\* s is the end of t
IsSuffix(s, t) ==
  Len(s) <= Len(t) /\ s = SubSeq(t, Len(t) - Len(s) + 1, Len(t))

\* s is the beginning of t
IsPrefix(s, t) == Len(s) <= Len(t) /\ s = SubSeq(t, 1, Len(s))

\* C19: a processQuery call that returns a message has appended to the
\* conversation memory one user entry (the query) followed by one
\* assistant entry (the message), has incremented turnCount by exactly 1,
\* has not decreased totalTokens, and has issued exactly one upsert of the
\* conversation, as its last call, with the assistant entry in the row.
C19_OneTurnPerRequest ==
  [][\A r \in DOMAIN requests :
       (/\ requests[r].pc # "done"
        /\ requests'[r].pc = "done"
        /\ requests'[r].path # "error")
         => LET before == requests'[r].loaded
                after == requests'[r].conversation
                calls == requests'[r].calls
                n == Len(after.messages)
            IN /\ n >= 2
               /\ after.messages[n - 1]
                    = [role |-> "user", content |-> requests'[r].query]
               /\ after.messages[n]
                    = [role |-> "assistant",
                       content |-> requests'[r].response.message]
               /\ IsSuffix(SubSeq(after.messages, 1, n - 2), before.messages)
               /\ after.turnCount = before.turnCount + 1
               /\ after.totalTokens >= before.totalTokens
               /\ Cardinality({i \in DOMAIN calls :
                                 calls[i] = "upsertConversation"}) = 1
               /\ Last(calls) = "upsertConversation"
               /\ "upsert" \in requests'[r].trace
                    => conversationsTable'[requests'[r].conversationId].messages
                         = after.messages]_vars

\* a second request of a conversation has returned a movie: the memory
\* holds the two earlier entries and the two entries of this request
C19_Witness ==
  \E r \in DOMAIN requests :
    /\ Returned(r)
    /\ requests[r].path = "generated"
    /\ Len(requests[r].loaded.messages) = 2
    /\ Len(requests[r].conversation.messages) = 4
    /\ requests[r].conversation.turnCount = 2
    /\ "upsert" \in requests[r].trace

\* C20: when the load of a persisted conversation fails in a request (so
\* that the request starts from an empty memory) and the request persists
\* its conversation, the durable copy still holds what the earlier request
\* persisted: its messages, its discussed movies, and a turn count and a
\* token count that are not smaller.
C20_FailedLoadKeepsHistory ==
  \A r \in DOMAIN requests :
    (/\ r = Len(requests) /\ r > 1
     /\ Returned(r) /\ requests[r].sequential
     /\ Returned(r - 1)
     /\ "upsert" \in requests[r - 1].trace
     /\ requests[r - 1].conversationId = requests[r].conversationId
     /\ requests[r].loaded = NewConversation
     /\ "upsert" \in requests[r].trace)
      => LET row == conversationsTable[requests[r].conversationId]
             earlier == requests[r - 1].conversation
         IN /\ IsPrefix(earlier.messages, row.messages)
            /\ IsPrefix(earlier.discussedMovies, row.discussed_movies)
            /\ row.turns > earlier.turnCount
            /\ row.total_tokens >= earlier.totalTokens

(***************************************************************************)
(* The vote count shown in a chat bubble: the function applied to         *)
(* message.movie.imdbVotes in ChatBubble.                                 *)
(***************************************************************************)
MaxVotesLen == 3

VotesAlphabet == {"0", "1", "2", ",", "K", "-"}

MillionVotes == <<"1",",","2","3","4",",","5","6","7">>

\* the values of imdbVotes: null, undefined, and texts
VotesInputs ==
  {[type |-> "null"], [type |-> "undefined"]}
  \cup {[type |-> "string", value |-> s] :
          s \in UNION {[1..n -> VotesAlphabet] : n \in 0..MaxVotesLen}
                \cup {NotAvailable, MillionVotes,
                      <<"0","0","0","0">>, <<"1","2","3","4">>,
                      <<"1",".","5","K">>, <<"1","2"," ","v","o","t","e","s">>}}

\* the number formats of the runtimes the component runs on: groups of
\* three digits separated by commas or by points, or no grouping
Locales == {"comma", "point", "plain"}

\* the digits ds in groups of three from the right, separated by sep
RECURSIVE Grouped(_, _)
Grouped(ds, sep) ==
  IF Len(ds) <= 3 THEN ds
  ELSE Grouped(SubSeq(ds, 1, Len(ds) - 3), sep)
         \o sep \o SubSeq(ds, Len(ds) - 2, Len(ds))

\* Number.prototype.toLocaleString of a positive integer
toLocaleString(n, locale) ==
  Grouped(Decimal(n),
          IF locale = "comma" THEN <<",">>
          ELSE IF locale = "point" THEN <<".">> ELSE << >>)

\* String(votes).replace(/[^\d]/g, '')
cleanVotes(votes) == SelectSeq(votes, LAMBDA c : c \in DigitCh)

\* the function of the votes text of the bubble
formatVotes(votes, locale) ==
  IF votes.type # "string" \/ votes.value = << >>
       \/ votes.value = NotAvailable
    THEN <<"0">>
    ELSE LET ParsedOr(votesNumber) ==
               IF votesNumber.nan \/ votesNumber.n <= 0 THEN <<"0">>
               ELSE toLocaleString(votesNumber.n, locale)
             Cleaned(clean) ==
               IF clean = << >> THEN <<"0">> ELSE ParsedOr(parseInt(clean))
         IN Cleaned(cleanVotes(votes.value))

InitVotes ==
  /\ InitMemory
  /\ InitPipeline
  /\ \E votes \in VotesInputs : call = [votes |-> votes]
  /\ ret = NULL

\* the bubble is rendered
RenderVotes ==
  /\ ret = NULL
  /\ \E locale \in Locales :
       ret' = [text |-> formatVotes(call.votes, locale), locale |-> locale]
  /\ UNCHANGED <<call, memVars, pipeVars>>

NextVotes == RenderVotes
SpecVotes == InitVotes /\ [][NextVotes]_vars

\* text displays the positive integer n: its digits, possibly grouped
Displays(text, n) ==
  /\ n > 0
  /\ SelectSeq(text, LAMBDA c : c \in DigitCh) = Decimal(n)
  /\ \A i \in DOMAIN text : text[i] \in DigitCh \cup {",", "."}
  /\ text[1] \in DigitCh /\ text[Len(text)] \in DigitCh

\* the text writes a number: digits with an optional sign, group
\* separators and decimal point, and nothing else
IsNumeric(s) ==
  /\ \E i \in DOMAIN s : s[i] \in DigitCh
  /\ \A i \in DOMAIN s : s[i] \in DigitCh \cup {",", ".", "-", "+"}

\* C16: the vote-count formatter maps 'N/A', the empty text, null,
\* undefined and every text that is not numeric to '0', maps '1,234,567'
\* to the display of 1234567, and its result is always '0' or the display
\* of a positive integer.
C16_VotesAreNormalised ==
  ret # NULL =>
    LET votes == call.votes
    IN /\ (\/ votes.type # "string"
           \/ votes.value \in {<< >>, NotAvailable}
           \/ ~IsNumeric(votes.value)) => ret.text = <<"0">>
       /\ (votes.type = "string" /\ votes.value = MillionVotes)
            => Displays(ret.text, 1234567)
       /\ \/ ret.text = <<"0">>
          \/ Displays(ret.text, NumberOf(cleanVotes(ret.text)))

\* the parts of C16 that do not concern texts with digits among other
\* characters
VotesWithoutMixedTexts ==
  ret # NULL =>
    LET votes == call.votes
    IN /\ (\/ votes.type # "string"
           \/ votes.value \in {<< >>, NotAvailable}
           \/ cleanVotes(votes.value) = << >>) => ret.text = <<"0">>
       /\ (votes.type = "string" /\ votes.value = MillionVotes)
            => Displays(ret.text, 1234567)
       /\ \/ ret.text = <<"0">>
          \/ Displays(ret.text, NumberOf(cleanVotes(ret.text)))

\* C17: in the movie path, when the title resolution has returned at least
\* one title, the lookup of that title (the store of the user, then the
\* external catalog) is performed before a reply is produced: a request
\* that has returned with a resolved title has searched.
C17_ResolvedTitleIsLookedUp ==
  \A r \in DOMAIN requests :
    (/\ Returned(r)
     /\ requests[r].path # "error"
     /\ ~requests[r].isGeneralConversation
     /\ Len(requests[r].movieTitles) > 0)
      => \E i \in DOMAIN requests[r].calls :
           requests[r].calls[i] \in {"searchDatabase", "searchOMDB"}

\* the result of a request without the id and the creation time of its
\* recommendation
Comparable(response) ==
  IF response.recommendation = NULL THEN response
  ELSE [response EXCEPT !.recommendation =
          [movie_id |-> @.movie_id, recommendation |-> @.recommendation,
           worth_watching |-> @.worth_watching]]

\* two requests that went the same way through processQuery: the same
\* input, the same loaded conversation, the same calls, the same movie and
\* the same answers of the language models (a conversation model that
\* throws gives a result without counters, one that answers gives them)
SameRun(a, b) ==
  /\ a.userId = b.userId /\ a.query = b.query
  /\ a.conversationId = b.conversationId
  /\ a.loaded = b.loaded
  /\ a.path = b.path /\ a.calls = b.calls
  /\ a.movieTitles = b.movieTitles
  /\ a.normalizedMovie = b.normalizedMovie
  /\ a.conversation.totalTokens = b.conversation.totalTokens
  /\ a.response.message = b.response.message
  /\ (a.response.conversation = NULL) = (b.response.conversation = NULL)
  /\ (a.response.recommendation = NULL) = (b.response.recommendation = NULL)
  /\ a.response.recommendation # NULL
       => a.response.recommendation.recommendation
            = b.response.recommendation.recommendation

\* C21: when the upsert of the conversation fails during
\* saveAssistantMessage, the memory keeps the appended assistant message
\* and the discussed movie, the request returns normally, and its result
\* and its memory are those of a request that went the same way and whose
\* upsert succeeded.
C21_FailedUpsertIsOnlyLogged ==
  \A r \in DOMAIN requests :
    (/\ Returned(r)
     /\ Last(requests[r].calls) = "upsertConversation"
     /\ "upsert" \notin requests[r].trace)
      => \E done \in {requests[r]} :
           /\ done.status = 200
           /\ done.path # "error"
           /\ done.response.error = NULL
           /\ Last(done.conversation.messages)
                = [role |-> "assistant", content |-> done.response.message]
           /\ done.response.movie # NULL
                => /\ Len(done.conversation.discussedMovies) > 0
                   /\ Last(done.conversation.discussedMovies)
                        = MovieEntry(done.response.movie)
           /\ \A s \in DOMAIN requests :
                (/\ Returned(s)
                 /\ "upsert" \in requests[s].trace
                 /\ SameRun(done, requests[s]))
                  => /\ Comparable(done.response)
                          = Comparable(requests[s].response)
                     /\ done.conversation = requests[s].conversation

\* two requests went the same way to a general reply of the conversation
\* model; the upsert of one failed, the upsert of the other succeeded
C21_Witness ==
  \E r, s \in DOMAIN requests :
    /\ Returned(r) /\ Returned(s)
    /\ requests[r].path = "general"
    /\ requests[r].response.conversation # NULL
    /\ "upsert" \notin requests[r].trace
    /\ "upsert" \in requests[s].trace
    /\ SameRun(requests[r], requests[s])
(***************************************************************************)
(* searchOMDB applied to lists of titles, with the lookups it attempts.    *)
(***************************************************************************)
MaxTitles == 2

\* titles as the resolver hands them to searchOMDB: plain, with a year,
\* with an actor, with both, unknown to the catalog
CatalogTitles ==
  { <<"I","n","c","e","p","t","i","o","n">>,
    <<"B","a","t","m","a","n"," ","w","i","t","h"," ","K","e","a","t","o","n">>,
    <<"B","a","t","m","a","n"," ","w","i","t","h"," ","B","a","l","e">>,
    <<"W","o","n","d","e","r"," ","W","o","m","a","n"," ","1","9","8","4">>,
    <<"W","o","n","d","e","r"," ","W","o","m","a","n"," ","1","9","8","4"," ","w","i","t","h"," ","H","a","n","k","s">>,
    <<"W","o","n","d","e","r"," ","W","o","m","a","n"," ","w","i","t","h"," ","G","a","d","o","t">>,
    <<"I","n","c","e","p","t","i","o","n"," ","2","0","1","0">>,
    <<"N","o","s","u","c","h">>,
    <<"T","h","e"," ","R","o","o","m"," ","s","t","a","r","r","i","n","g"," ","W","i","s","e","a","u">>,
    <<"B","a","t","m","a","n"," ","2","0","0","5">> }

\* the lookups one round of the loop of searchOMDB attempts for a title, in
\* order: the qualified keyword search when the title has a year or an
\* actor, the title fetch, the title fetch of each variation up to the
\* first that is found, the keyword search with detail fetch
TitleSteps(title) ==
  LET Step(layer, n) == <<[layer |-> layer, variation |-> n]>>
      RECURSIVE VariationSteps(_, _)
      VariationSteps(variations, n) ==
        IF n > Len(variations) THEN << >>
        ELSE Step("variation", n)
               \o (IF OMDBByTitle(variations[n]) # NULL THEN << >>
                   ELSE VariationSteps(variations, n + 1))
      Fallback(qualified, variations) ==
        Step("exact", 0)
          \o (IF OMDBByTitle(title) # NULL THEN << >>
              ELSE VariationSteps(variations, 1)
                     \o (IF FirstVariation(variations) = NULL /\ ~qualified
                           THEN Step("keyword", 0) ELSE << >>))
      Layers(qualified, specific) ==
        (IF qualified THEN Step("qualified", 0) ELSE << >>)
          \o (IF specific.found \/ specific.skip THEN << >>
              ELSE Fallback(qualified, generateOMDBSearchVariations(title)))
      Qualified(qualified) ==
        Layers(qualified,
               IF qualified THEN QualifiedSearch(title)
               ELSE [found |-> FALSE, skip |-> FALSE, data |-> NULL])
  IN Qualified(requestedYear(title) # NULL \/ requestedActor(title) # NULL)

\* the rounds of the loop of searchOMDB: for each title tried, its lookups
RECURSIVE SearchRounds(_)
SearchRounds(titles) ==
  IF titles = << >> THEN << >>
  ELSE <<TitleSteps(Head(titles))>>
         \o (IF SearchTitle(Head(titles)) # NULL THEN << >>
             ELSE SearchRounds(Tail(titles)))

InitCatalog ==
  /\ InitMemory
  /\ InitPipeline
  /\ \E n \in 1..MaxTitles :
       \E titles \in [1..n -> CatalogTitles] : call = [titles |-> titles]
  /\ ret = NULL

\* searchOMDB(titles)
SearchOMDB ==
  /\ ret = NULL
  /\ ret' = [movie |-> searchOMDB(call.titles),
             rounds |-> SearchRounds(call.titles)]
  /\ UNCHANGED <<call, memVars, pipeVars>>

NextCatalog == SearchOMDB
SpecCatalog == InitCatalog /\ [][NextCatalog]_vars

\* every lookup there is for a title: the qualified keyword search when the
\* title has a year or an actor, the title fetch, the title fetch of every
\* variation, and the keyword search with detail fetch (which for a
\* qualified title is the search already made)
AllLayers(title) ==
  LET qualified == requestedYear(title) # NULL \/ requestedActor(title) # NULL
      variations == generateOMDBSearchVariations(title)
  IN (IF qualified THEN <<[layer |-> "qualified", variation |-> 0]>>
                   ELSE << >>)
       \o <<[layer |-> "exact", variation |-> 0]>>
       \o [n \in 1..Len(variations) |-> [layer |-> "variation", variation |-> n]]
       \o (IF qualified THEN << >>
                        ELSE <<[layer |-> "keyword", variation |-> 0]>>)

\* C22: searchOMDB tries the titles in their order; a title that yields no
\* result has had every lookup attempted before the next title is tried,
\* and the first title that yields a result ends the lookup with that
\* result.
C22_LayersBeforeNextTitle ==
  ret # NULL =>
    LET titles == call.titles
        rounds == ret.rounds
    IN /\ Len(rounds) >= 1 /\ Len(rounds) <= Len(titles)
       /\ \A i \in 1..Len(rounds) :
            /\ IsPrefix(rounds[i], AllLayers(titles[i]))
            /\ i < Len(rounds) => /\ SearchTitle(titles[i]) = NULL
                                  /\ rounds[i] = AllLayers(titles[i])
       /\ ret.movie = SearchTitle(titles[Len(rounds)])
       /\ ret.movie = NULL => Len(rounds) = Len(titles)

\* C23: when the title whose lookup ends searchOMDB carries an actor
\* qualifier, the movie returned credits that actor (by inclusion of the
\* name or similarity above 0.7): searchOMDB returns a movie crediting the
\* actor or no movie.
C23_ReturnedMovieCreditsActor ==
  (ret # NULL /\ ret.movie # NULL) =>
    LET title == call.titles[Len(ret.rounds)]
    IN requestedActor(title) # NULL
         => actorMatches(ret.movie, requestedActor(title))

\* the titles of the discussed movies of a conversation that the query
\* contains, letter case aside
MentionedTitles(query, conversation) ==
  {conversation.discussedMovies[i].title :
     i \in {j \in DOMAIN conversation.discussedMovies :
              includes(toLowerCase(query),
                       toLowerCase(conversation.discussedMovies[j].title))}}

\* C24: for every query that contains the title of a discussed movie and
\* none of 'different', 'another', 'else', 'sequel', handleContextualQueries
\* returns that discussed title, unchanged.
C24_MentionedTitleIsReturned ==
  (/\ ret # NULL
   /\ MentionedTitles(call.query, call.conversation) # {}
   /\ \A word \in {s_different, s_another, s_else, s_sequel} :
        ~includes(toLowerCase(call.query), word))
    => ret.contextual \in MentionedTitles(call.query, call.conversation)

\* queries of a conversation that is under way: requests for
\* recommendations and comparisons, with and without a reference to a
\* discussed movie
ContextualQueries ==
  { <<"s","u","g","g","e","s","t"," ","s","o","m","e","t","h","i","n","g"," ","l","i","k","e"," ","i","t">>,
    <<"r","e","c","o","m","m","e","n","d"," ","m","o","v","i","e","s"," ","s","i","m","i","l","a","r"," ","t","o"," ","I","n","c","e","p","t","i","o","n">>,
    <<"w","h","i","c","h"," ","i","s"," ","b","e","t","t","e","r">>,
    <<"c","o","m","p","a","r","e"," ","i","t"," ","w","i","t","h"," ","B","a","t","m","a","n">>,
    <<"s","o","m","e","t","h","i","n","g"," ","e","l","s","e">>,
    <<"I","n","c","e","p","t","i","o","n"," ","v","s"," ","B","a","t","m","a","n">>,
    <<"a"," ","d","i","f","f","e","r","e","n","t"," ","o","n","e">>,
    <<"r","e","c","o","m","m","e","n","d"," ","s","i","m","i","l","a","r">>,
    <<"w","h","a","t"," ","a","b","o","u","t"," ","I","n","c","e","p","t","i","o","n">>,
    <<"t","e","l","l"," ","m","e"," ","a","b","o","u","t"," ","t","h","a","t"," ","m","o","v","i","e">>,
    <<"s","u","g","g","e","s","t"," ","a","n","o","t","h","e","r">>,
    <<"i","s"," ","i","t"," ","b","e","t","t","e","r"," ","t","h","a","n"," ","t","h","e"," ","s","e","q","u","e","l">>,
    <<"m","o","v","i","e","s"," ","l","i","k","e"," ","t","h","a","t">>,
    <<"B","a","t","m","a","n"," ","v","e","r","s","u","s"," ","I","n","c","e","p","t","i","o","n">>,
    <<"r","e","c","o","m","m","e","n","d"," ","a"," ","c","o","m","e","d","y">> }

InitContextual ==
  /\ InitMemory
  /\ InitPipeline
  /\ \E q \in ContextualQueries, h \in ResolveHistories :
       call = [query |-> q, conversation |-> ConversationOf(h)]
  /\ ret = NULL

\* handleContextualQueries applied to the input
HandleContextualQueries ==
  /\ ret = NULL
  /\ ret' = [contextual |-> handleContextualQueries(call.query,
                                                    call.conversation)]
  /\ UNCHANGED <<call, memVars, pipeVars>>

NextContextual == HandleContextualQueries
SpecContextual == InitContextual /\ [][NextContextual]_vars

\* the words of a recommendation or comparison intent
IntentWords ==
  { <<"r","e","c","o","m","m","e","n","d">>, <<"s","u","g","g","e","s","t">>,
    <<"s","i","m","i","l","a","r">>, <<"l","i","k","e"," ","t","h","a","t">>,
    s_different, s_another, s_else,
    <<"b","e","t","t","e","r">>, <<"c","o","m","p","a","r","e">>,
    <<"v","s">>, <<"v","e","r","s","u","s">> }

\* C25: with at least one discussed movie in memory, for every query that
\* contains a word of a recommendation or comparison intent
\* handleContextualQueries returns no title.
C25_IntentYieldsNoTitle ==
  (/\ ret # NULL
   /\ Len(call.conversation.discussedMovies) > 0
   /\ \E word \in IntentWords : includes(toLowerCase(call.query), word))
    => ret.contextual = NULL

(***************************************************************************)
(* The generation of a recommendation failing repeatedly for one movie.    *)
(***************************************************************************)
MaxGenerations == 2

InitRepeat ==
  /\ InitMemory
  /\ InitPipeline
  /\ \E m \in DOMAIN OMDB : call = [movieData |-> normalizeMovieData(OMDB[m], 0)]
  /\ ret = << >>

\* generateRecommendation(movieData, conversationId) with a failing call of
\* the recommendation model; ret lists the results so far
GenerationFails ==
  /\ Len(ret) < MaxGenerations
  /\ \E llm \in {o \in RecommendationOutcomes : o.throws} :
       ret' = Append(ret, generateRecommendation(call.movieData, llm,
                                                 Len(ret) + 1))
  /\ UNCHANGED <<call, memVars, pipeVars>>

NextRepeat == GenerationFails
SpecRepeat == InitRepeat /\ [][NextRepeat]_vars

\* C26: the fallback recommendation is deterministic: two failures of the
\* generation for the same movie record give the same recommendation text
\* and the same worth_watching.
C26_FallbackIsDeterministic ==
  \A i, j \in DOMAIN ret :
    /\ ret[i].recommendation = ret[j].recommendation
    /\ ret[i].worth_watching = ret[j].worth_watching

\* the part of C26 that concerns worth_watching
SameWorthWatching ==
  \A i, j \in DOMAIN ret : ret[i].worth_watching = ret[j].worth_watching

(***************************************************************************)
(* generateRecommendation applied to answers of the recommendation model   *)
(* of every length around the limit.                                       *)
(***************************************************************************)
MaxFullStops == 2

\* lengths of the answer and places of its full stops
AnswerLengths == {0, 1, 12, 599, 600, 601, 602, 650, 700}

FullStopPlaces == {150, 200, 201, 202, 203, 400, 597, 598, 599, 600, 601, 650}

\* the answers of the recommendation model: letters with full stops at the
\* given places, possibly followed by a line break
ModelAnswers ==
  {[i \in 1..(n + pad) |-> IF i > n THEN "\n"
                           ELSE IF i \in stops THEN "." ELSE "a"] :
     n \in AnswerLengths, pad \in {0, 1},
     stops \in {s \in SUBSET FullStopPlaces : Cardinality(s) <= MaxFullStops}}

InitTruncate ==
  /\ InitMemory
  /\ InitPipeline
  /\ \E text \in ModelAnswers :
       call = [movieData |-> normalizeMovieData(OMDB[1], 0),
               llm |-> [throws |-> FALSE, tokens |-> 40,
                        order |-> [i \in 1..4 |-> i], text |-> text]]
  /\ ret = NULL

\* generateRecommendation(movieData, conversationId) with an answer of the
\* recommendation model
GenerateFromAnswer ==
  /\ ret = NULL
  /\ ret' = [recommendation |->
               generateRecommendation(call.movieData, call.llm, 1)]
  /\ UNCHANGED <<call, memVars, pipeVars>>

NextTruncate == GenerateFromAnswer
SpecTruncate == InitTruncate /\ [][NextTruncate]_vars

MaxInstanceRequests == 3

InstanceConversations == {<<"A">>, <<"B">>}

\* queries detectGeneralConversation takes for general conversation
InstanceQueries ==
  { <<"t","h","a","n","k","s","!">>,
    <<"w","h","i","c","h"," ","i","s"," ","b","e","t","t","e","r","?">> }

\* the movies a movie query of the instance is about
InstanceMovies == {1, 4}

\* BufferWindowMemory with k: 10 hands the last 2 * k messages to the chain
WindowMessages == 20

\* loadConversation (lines 572-621) on the store of the instance
StoredConversation(store, conversationId) ==
  IF store[conversationId] = NULL THEN NewConversation
                                  ELSE store[conversationId]

\* the context message of lines 921-925
ContextMessage(discussedMovies) ==
  <<"C","o","n","t","e","x","t",":"," ","R","e","c","e","n","t","l","y"," ","d","i","s","c","u","s","s","e","d"," ","m","o","v","i","e","s",":"," ">>
  \o Join([k \in DOMAIN SliceLast(discussedMovies, 3) |->
             LET entry == SliceLast(discussedMovies, 3)[k]
             IN <<"\"">> \o entry.title \o <<"\""," ","(">>
                \o OrElse(entry.genre, <<"U","n","k","n","o","w","n">>)
                \o <<","," ">>
                \o OrElse(entry.rating, <<"N","/","A">>)
                \o <<"/","1","0",")">>],
          <<","," ">>)

\* lines 902-937: the chat history after the rebuild step of a general
\* request, conversation being the stored conversation with the query saved
RebuildMemory(chatHistory, conversation, conversationId) ==
  LET shouldRebuildMemory ==
        \/ Len(chatHistory) = 0
        \/ Len(conversation.messages) > Len(chatHistory) + 1
      previousMessages ==
        SliceLast(SubSeq(conversation.messages, 1,
                         Len(conversation.messages) - 1), 8)
      loaded ==
        [k \in DOMAIN previousMessages |->
           [conversationId |-> conversationId,
            role |-> previousMessages[k].role,
            content |-> previousMessages[k].content]]
  IN IF shouldRebuildMemory /\ Len(conversation.messages) > 1
       THEN IF Len(conversation.discussedMovies) > 0
              THEN Append(loaded,
                          [conversationId |-> conversationId,
                           role |-> "assistant",
                           content |->
                             ContextMessage(conversation.discussedMovies)])
              ELSE loaded
       ELSE chatHistory

InitInstance ==
  /\ InitMemory
  /\ InitPipeline
  /\ call = [conversationStore |-> [c \in InstanceConversations |-> NULL],
             chatHistory |-> << >>,
             served |-> 0]
  /\ ret = << >>

\* processQuery for a query of general conversation: loadConversation,
\* saveUserMessage and handleGeneralConversation (lines 895-987)
GeneralRequest ==
  \E conversationId \in InstanceConversations, query \in InstanceQueries,
     llm \in ConversationOutcomes :
    LET conversation ==
          saveUserMessage(StoredConversation(call.conversationStore,
                                             conversationId), query)
        isNewConversation == Len(conversation.messages) <= 1
        rebuilt == RebuildMemory(call.chatHistory, conversation,
                                 conversationId)
        supplied == SliceLast(rebuilt, WindowMessages)
        responseText ==
          IF isNewConversation /\ isGeneralGreeting(query)
            THEN WelcomeResponse
            ELSE OrElse(trim(llm.text), HelpResponse)
        counted == [conversation EXCEPT !.totalTokens = @ + llm.tokens]
    IN /\ call.served < MaxInstanceRequests
       /\ detectGeneralConversation(query)
       /\ call' =
            [conversationStore |->
               [call.conversationStore EXCEPT ![conversationId] =
                  IF llm.throws
                    THEN saveAssistantMessage(conversation, HelpResponse, NULL)
                    ELSE saveAssistantMessage(counted, responseText, NULL)],
             chatHistory |->
               IF llm.throws THEN rebuilt
               ELSE rebuilt
                    \o <<[conversationId |-> conversationId,
                          role |-> "user", content |-> query],
                         [conversationId |-> conversationId,
                          role |-> "assistant", content |-> llm.text]>>,
             served |-> call.served + 1]
       /\ ret' = [conversationId |-> conversationId,
                  kind |-> "general",
                  before |-> call.conversationStore,
                  history |-> supplied]
       /\ UNCHANGED <<memVars, pipeVars>>

\* processQuery for a query that names a movie of the catalog: the turn is
\* recorded in the conversation and the chat history is not touched
MovieRequest ==
  \E conversationId \in InstanceConversations, m \in InstanceMovies :
    /\ call.served < MaxInstanceRequests
    /\ call' =
         [call EXCEPT
            !.conversationStore[conversationId] =
               Discuss(StoredConversation(call.conversationStore,
                                          conversationId), m, call.served),
            !.served = @ + 1]
    /\ ret' = [conversationId |-> conversationId,
               kind |-> "movie",
               before |-> call.conversationStore,
               history |-> << >>]
    /\ UNCHANGED <<memVars, pipeVars>>

NextInstance == GeneralRequest \/ MovieRequest

SpecInstance == InitInstance /\ [][NextInstance]_vars

\* C28: a request for one conversation id leaves the ConversationMemory of
\* every other id as it was, and the chat history the conversation model is
\* given for a general reply holds only entries of the conversation the
\* reply is for.
C28_ConversationsAreIsolated ==
  ret # << >> =>
    /\ \A c \in InstanceConversations \ {ret.conversationId} :
         call.conversationStore[c] = ret.before[c]
    /\ \A k \in DOMAIN ret.history :
         ret.history[k].conversationId = ret.conversationId

\* the first half of C28 alone: the store keeps the other conversations
OtherConversationsUntouched ==
  ret # << >> =>
    \A c \in InstanceConversations \ {ret.conversationId} :
      call.conversationStore[c] = ret.before[c]

(***************************************************************************)
(* The chat store of the client (store/chatStore.ts).  call holds the      *)
(* store (messages, isLoading, error, conversationId) and the sendMessage  *)
(* that awaits the edge function, if any; ret holds what the last          *)
(* completed sendMessage did.  A message carries, beside its content, the  *)
(* conversationId its request was made under and the number of the         *)
(* sendMessage that appended it; ids and timestamps are not modelled.      *)
(* generateConversationId draws a fresh id: the ids are numbered.  The     *)
(* chat input only sends while isLoading is false (ChatInput, handleSend). *)
(***************************************************************************)
MaxSends == 3

MaxClears == 2

\* what the user types
Contents ==
  { <<"I","n","c","e","p","t","i","o","n">>, <<"h","i">>, <<" ">> }

CouldNotGenerate ==
  <<"I"," ","r","e","c","e","i","v","e","d"," ","y","o","u","r"," ","m","e","s","s","a","g","e"," ","b","u","t"," ","c","o","u","l","d","n","'","t"," ","g","e","n","e","r","a","t","e"," ","a"," ","p","r","o","p","e","r"," ","r","e","s","p","o","n","s","e",".">>

CouldNotProcess ==
  <<"I","'","m"," ","s","o","r","r","y",","," ","I"," ","c","o","u","l","d","n","'","t"," ","p","r","o","c","e","s","s"," ","y","o","u","r"," ","r","e","q","u","e","s","t","."," ","P","l","e","a","s","e"," ","t","r","y"," ","a","g","a","i","n"," ","l","a","t","e","r",".">>

FailedToSend ==
  <<"F","a","i","l","e","d"," ","t","o"," ","s","e","n","d"," ","m","e","s","s","a","g","e">>

\* the bodies of a 2xx answer of the edge function: data.data of a reply,
\* of a reply without message, of an error answer, and no data.data
ResponseBodies ==
  { [data |-> [error |-> NULL, message |-> WelcomeResponse, movie |-> NULL]],
    [data |-> [error |-> NULL, message |-> MessageText(1),
              movie |-> [title |-> OMDB[4].Title]]],
    [data |-> [error |-> NULL, message |-> NULL, movie |-> NULL]],
    [data |-> [error |-> ErrorResponse, message |-> NULL, movie |-> NULL]],
    [data |-> NULL] }

\* what callEdgeFunction returns (lib/supabase.ts, lines 36-54): the body,
\* or no body, of an answer, or the error of a failed invoke, whose message
\* may be empty
EdgeResults ==
  { [data |-> body, error |-> NULL, message |-> NULL] :
      body \in ResponseBodies \cup {NULL} }
  \cup { [data |-> NULL, error |-> <<"E","r","r","o","r">>, message |-> text] :
           text \in {NULL, <<"F","u","n","c","t","i","o","n","s","H","t","t","p","E","r","r","o","r">>} }

ChatMessage(content, is_user, movie, conversationId, send) ==
  [content |-> content, is_user |-> is_user, movie |-> movie,
   conversationId |-> conversationId, send |-> send]

InitChat ==
  /\ InitMemory
  /\ InitPipeline
  /\ call = [messages |-> << >>, isLoading |-> FALSE, error |-> NULL,
             conversationId |-> 0, awaiting |-> NULL,
             sends |-> 0, clears |-> 0]
  /\ ret = << >>

\* handleSend of the chat input and sendMessage up to its await
\* (lines 15-43)
SendMessage ==
  \E content \in Contents :
    /\ call.sends < MaxSends
    /\ trim(content) # NULL /\ ~call.isLoading
    /\ call' =
         [call EXCEPT
            !.isLoading = TRUE,
            !.error = NULL,
            !.messages =
               Append(@, ChatMessage(trim(content), TRUE, NULL,
                                     call.conversationId, call.sends + 1)),
            !.awaiting = [conversationId |-> call.conversationId,
                          send |-> call.sends + 1,
                          userMessage |->
                            ChatMessage(trim(content), TRUE, NULL,
                                        call.conversationId,
                                        call.sends + 1)],
            !.sends = @ + 1]
    /\ UNCHANGED <<ret, memVars, pipeVars>>

\* the messages after sendMessage resumes with a result (lines 45-109)
Resumed(messages, awaiting, result) ==
  LET responseData == result.data.data
  IN IF result.error # NULL
       THEN Append(messages,
                   ChatMessage(CouldNotProcess, FALSE, NULL,
                               awaiting.conversationId, awaiting.send))
     ELSE IF result.data # NULL /\ result.data.data # NULL
       THEN IF responseData.error # NULL
              THEN Append(messages,
                          ChatMessage(responseData.error, FALSE, NULL,
                                      awaiting.conversationId, awaiting.send))
              ELSE Append(messages,
                          ChatMessage(OrElse(responseData.message,
                                             CouldNotGenerate),
                                      FALSE, responseData.movie,
                                      awaiting.conversationId, awaiting.send))
     ELSE messages

\* sendMessage from the return of callEdgeFunction to its end
\* (lines 45-113)
ReceiveResult ==
  \E result \in EdgeResults :
    /\ call.awaiting # NULL
    /\ call' =
         [call EXCEPT
            !.messages = Resumed(@, call.awaiting, result),
            !.error = IF result.error # NULL
                        THEN OrElse(result.message, FailedToSend)
                        ELSE @,
            !.isLoading = FALSE,
            !.awaiting = NULL]
    /\ ret' = [send |-> call.awaiting.send,
               result |-> result,
               appended |->
                 <<call.awaiting.userMessage>>
                 \o SubSeq(Resumed(call.messages, call.awaiting, result),
                           Len(call.messages) + 1,
                           Len(Resumed(call.messages, call.awaiting,
                                       result))),
               cleared |-> call.conversationId # call.awaiting.conversationId]
    /\ UNCHANGED <<memVars, pipeVars>>

\* clearMessages (lines 115-120), called by Clear Chat and by Logout
\* (profile.tsx, lines 42-52 and 70-72)
ClearMessages ==
  /\ call.clears < MaxClears
  /\ call' = [call EXCEPT !.messages = << >>,
                          !.conversationId = call.clears + 1,
                          !.clears = @ + 1]
  /\ UNCHANGED <<ret, memVars, pipeVars>>

NextChat == SendMessage \/ ReceiveResult \/ ClearMessages

SpecChat == InitChat /\ [][NextChat]_vars

\* C29: a step of sendMessage keeps the messages that exist, and when a
\* sendMessage completes, whatever callEdgeFunction returned, it has
\* appended two messages, the user's and then one that is not the user's,
\* and isLoading is false.
C29_SendAppendsTwoMessages ==
  [][ /\ (call.sends # call'.sends \/ call.awaiting # call'.awaiting)
         => IsPrefix(call.messages, call'.messages)
      /\ (call.awaiting # NULL /\ call'.awaiting = NULL)
         => /\ call'.isLoading = FALSE
            /\ Len(ret'.appended) = 2
            /\ ret'.appended[1].is_user
            /\ ~ret'.appended[2].is_user ]_vars

\* C30: the messages of the store were all sent or received under the
\* conversationId the store holds, also after a clearMessages that came
\* while a sendMessage awaited the edge function.
C30_OnlyCurrentConversation ==
  \A k \in DOMAIN call.messages :
    call.messages[k].conversationId = call.conversationId

\* a message of another conversationId than the store's is the reply to a
\* request that awaited the edge function when clearMessages ran
StaleMessagesAreReplies ==
  \A k \in DOMAIN call.messages :
    call.messages[k].conversationId # call.conversationId
      => ~call.messages[k].is_user

\* a sendMessage whose call failed or whose answer has a data.data has
\* appended the user's message and one that is not the user's
AnsweredSendsAppendTwo ==
  (/\ ret # << >>
   /\ \/ ret.result.error # NULL
      \/ ret.result.data # NULL /\ ret.result.data.data # NULL)
    => /\ Len(ret.appended) = 2
       /\ ret.appended[1].is_user
       /\ ~ret.appended[2].is_user

====
